---- MODULE Spec2Model ----
(***************************************************************************)
(* Model of robodk/robomath.py: the Mat matrix class, the homogeneous-pose *)
(* operations and the Euler-angle converters.                              *)
(*                                                                         *)
(* Numbers.  The code computes with IEEE doubles; the model computes with  *)
(* exact integers on the grid on which every operation of the code is      *)
(* exact: matrix entries are integers, the rotation blocks of poses are    *)
(* the 24 axis-aligned rotations, and an angle in radians is an integer    *)
(* number of quarter turns (the model's radian unit is math.pi/2, hence    *)
(* pi == 2).  Angles in degrees are plain integers, so the conversions     *)
(* x*180/pi and x*pi/180 are real conversions (90*k <-> k).  Float         *)
(* division is exact integer division on this grid.  Signed zeros are not  *)
(* distinguished.                                                          *)
(*                                                                         *)
(* Indices.  The code indexes from 0; TLA+ sequences index from 1.  At and *)
(* the range arguments of GetBlock/SetBlock take the code's 0-based        *)
(* indices.                                                                *)
(***************************************************************************)
EXTENDS Integers, Sequences, FiniteSets, TLC

VARIABLES pc, M, made, out, back, other

vars == <<pc, M, made, out, back, other>>

\* ------------------------------------------------------------------------
\* Bounds of the model

\* positions are a*(1,2,3) for a in -MaxCoord..MaxCoord
MaxCoord == 1

\* input angles range over -1..MaxAngle quarter turns
MaxAngle == 2

\* Mat(m, n) and eye(size) are built for sizes 0..MaxDim
MaxDim == 4

\* the entries of an input quaternion range over -MaxQuat..MaxQuat
MaxQuat == 2

\* a list of row lists handed to Mat has at most MaxListRows rows, each of at
\* most MaxRowLen entries; a flat list has at most MaxListRows entries
MaxListRows == 3

MaxRowLen == 2

\* ------------------------------------------------------------------------
\* Generic math

pi == 2

Abs(x) == IF x < 0 THEN -x ELSE x

Max(a, b) == IF a >= b THEN a ELSE b

RECURSIVE SumSeq(_)
SumSeq(s) == IF s = <<>> THEN 0 ELSE Head(s) + SumSeq(Tail(s))

\* math.sqrt: raises ValueError on a negative argument
sqrtDefined(value) == value >= 0

sqrt(value) ==
    CASE value = 0 -> 0
      [] value = 1 -> 1
      [] value = 4 -> 2
      [] value = 9 -> 3

sin(value) ==
    CASE value % 4 = 0 -> 0
      [] value % 4 = 1 -> 1
      [] value % 4 = 2 -> 0
      [] value % 4 = 3 -> -1

cos(value) ==
    CASE value % 4 = 0 -> 1
      [] value % 4 = 1 -> 0
      [] value % 4 = 2 -> -1
      [] value % 4 = 3 -> 0

\* math.atan2 on axis-aligned arguments, result in (-pi, pi]; atan2(0,0) = 0
atan2(y, x) ==
    CASE y = 0 /\ x >= 0 -> 0
      [] y > 0 /\ x = 0 -> 1
      [] y = 0 /\ x < 0 -> 2
      [] y < 0 /\ x = 0 -> -1

\* ------------------------------------------------------------------------
\* Evaluation order.  Python evaluates an argument or a local once and then
\* uses the value; Bind does the same for the model checker (F is applied to
\* the value of v, not to the expression).

Bind(v, F(_)) == CHOOSE r \in {F(x) : x \in {v}} : TRUE

Bind2(v, w, F(_, _)) == CHOOSE r \in {F(x, y) : x \in {v}, y \in {w}} : TRUE

\* ------------------------------------------------------------------------
\* Real numbers of the quaternion and rotation-vector code.  These functions
\* leave the integers: a real is <<p, q, r>>, standing for (p/q)*sqrt(r) with
\* q > 0, p/q in lowest terms and r squarefree (zero is <<0, 1, 1>>).
\* Products and quotients are always defined; a sum is defined when both
\* terms are multiples of the same square root, which is all the code needs
\* on the model's grid.

RECURSIVE Gcd(_, _)
Gcd(a, b) == IF b = 0 THEN a ELSE Gcd(b, a % b)

Sign(x) == IF x > 0 THEN 1 ELSE IF x < 0 THEN -1 ELSE 0

\* the largest k with k*k dividing n (n > 0)
SquarePart(n) ==
    LET ks == {k \in 1..n : k * k <= n /\ n % (k * k) = 0}
    IN  CHOOSE k \in ks : \A k2 \in ks : k2 <= k

\* (p/q)*sqrt(r) in normal form, for q > 0 and r squarefree
Normal(p, q, r) ==
    IF p = 0 THEN <<0, 1, 1>>
    ELSE Bind(Gcd(Abs(p), q), LAMBDA g : <<p \div g, q \div g, r>>)

Real(i) == <<i, 1, 1>>

RZero == Real(0)

RHalf == <<1, 2, 1>>

RIsInt(a) == a[2] = 1 /\ a[3] = 1

\* the integer a real is equal to
RInt(a) == CASE RIsInt(a) -> a[1]

RNeg(a) == <<-a[1], a[2], a[3]>>

RAbs(a) == <<Abs(a[1]), a[2], a[3]>>

RMul(a, b) ==
    Bind(Gcd(a[3], b[3]), LAMBDA g :
        Normal(a[1] * b[1] * g, a[2] * b[2], (a[3] \div g) * (b[3] \div g)))

\* a / b for b # 0
RDiv(a, b) ==
    CASE b[1] # 0 -> RMul(a, Normal(Sign(b[1]) * b[2], Abs(b[1]) * b[3], b[3]))

RAdd(a, b) ==
    CASE a[1] = 0 -> b
      [] b[1] = 0 -> a
      [] a[1] # 0 /\ b[1] # 0 /\ a[3] = b[3] ->
            Normal(a[1] * b[2] + b[1] * a[2], a[2] * b[2], a[3])

RSub(a, b) == RAdd(a, RNeg(b))

\* sign(a)*a^2 as a fraction over the common denominator of a and b
SignedSquare(a, b) == Sign(a[1]) * a[1] * a[1] * a[3] * b[2] * b[2]

RLess(a, b) == SignedSquare(a, b) < SignedSquare(b, a)

RLeq(a, b) == SignedSquare(a, b) <= SignedSquare(b, a)

RMax(a, b) == IF RLess(a, b) THEN b ELSE a

RMin(a, b) == IF RLess(b, a) THEN b ELSE a

\* int(a) for a >= 0: the largest integer not above a
RFloor(a) ==
    LET top == (Abs(a[1]) * a[3]) \div a[2] + 1
        ks == {k \in 0..top : k * k * a[2] * a[2] <= a[1] * a[1] * a[3]}
    IN  CHOOSE k \in ks : \A k2 \in ks : k2 <= k

\* math.sqrt of a rational p/q >= 0: sqrt(p*q)/q
Rsqrt(a) ==
    CASE a[1] = 0 -> RZero
      [] a[1] > 0 /\ a[3] = 1 ->
            Bind(SquarePart(a[1] * a[2]), LAMBDA k :
                Normal(k, a[2], (a[1] * a[2]) \div (k * k)))

sqrtA(value) == IF RLeq(value, RZero) THEN RZero ELSE Rsqrt(value)

\* math.cos of a rational number of quarter turns that is a multiple of 30
\* or of 45 degrees; t is the angle in units of 15 degrees, in 0..23
Rcos(a) ==
    LET t == (CASE a[3] = 1 /\ 6 % a[2] = 0 -> (a[1] * (6 \div a[2])) % 24)
        u == IF t > 12 THEN 24 - t ELSE t
        v == IF u > 6 THEN 12 - u ELSE u
        c == CASE v = 0 -> Real(1)
               [] v = 2 -> <<1, 2, 3>>
               [] v = 3 -> <<1, 2, 2>>
               [] v = 4 -> RHalf
               [] v = 6 -> RZero
    IN  IF u > 6 THEN RNeg(c) ELSE c

\* math.sin(a) = cos(pi/2 - a)
Rsin(a) == Rcos(RSub(Real(1), a))

\* math.acos, in quarter turns, of the cosines of the multiples of 30 and 45
\* degrees
acos(value) ==
    CASE value = Real(1) -> RZero
      [] value = <<1, 2, 3>> -> <<1, 3, 1>>
      [] value = <<1, 2, 2>> -> RHalf
      [] value = RHalf -> <<2, 3, 1>>
      [] value = RZero -> Real(1)
      [] value = RNeg(RHalf) -> <<4, 3, 1>>
      [] value = <<-1, 2, 2>> -> <<3, 2, 1>>
      [] value = <<-1, 2, 3>> -> <<5, 3, 1>>
      [] value = Real(-1) -> Real(2)

norm(p) == Rsqrt(RAdd(RAdd(RMul(p[1], p[1]), RMul(p[2], p[2])), RMul(p[3], p[3])))

\* normalize3(a) for norm(a) # 0
normalize3(a) ==
    Bind(RDiv(Real(1), norm(a)), LAMBDA norminv :
        <<RMul(a[1], norminv), RMul(a[2], norminv), RMul(a[3], norminv)>>)

mult3(v, d) == <<RMul(v[1], d), RMul(v[2], d), RMul(v[3], d)>>

\* ------------------------------------------------------------------------
\* Mat: a matrix is its attribute rows, a sequence of rows

\* Mat(rows, ncols): zero-filled matrix
MatZeros(rows, ncols) ==
    LET m0 == Max(rows, 0)
        n0 == Max(ncols, 0)
        m == IF m0 = 0 THEN 1 ELSE m0
        n == IF m0 = 0 THEN 0 ELSE n0
    IN  [x \in 1..m |-> [y \in 1..n |-> 0]]

\* max([len(i) for i in rows])
MaxLen(rows) ==
    LET lens == {Len(rows[k]) : k \in 1..Len(rows)}
    IN  CHOOSE l \in lens : \A l2 \in lens : l2 <= l

\* Mat(rows) with every row cut or padded to the length of the first row
MatRows_FirstRowLength(rows0) ==
    Bind(rows0, LAMBDA rows :
        IF Len(rows) = 0 THEN << <<>> >>
        ELSE [k \in 1..Len(rows) |->
                 [j \in 1..Len(rows[1]) |-> IF j <= Len(rows[k]) THEN rows[k][j] ELSE 0]])

\* Mat(rows) for a nested list of rows: short rows are padded with zeros
MatRows(rows0) ==
    Bind(rows0, LAMBDA rows :
        IF Len(rows) = 0 THEN << <<>> >>
        ELSE IF \E k \in 2..Len(rows) : Len(rows[k]) # Len(rows[1])
        THEN Bind(MaxLen(rows), LAMBDA n :
                 [k \in 1..Len(rows) |->
                     [j \in 1..n |-> IF j <= Len(rows[k]) THEN rows[k][j] ELSE 0]])
        ELSE rows)

size(H0) ==
    Bind(H0, LAMBDA H :
        LET m == Len(H)
            n == IF m > 0 THEN Len(H[1]) ELSE 0
        IN  <<m, n>>)

\* Mat.size(dim): dim is None or an integer
sizeDim(self, dim) ==
    Bind(size(self), LAMBDA sz :
        IF dim.kind = "None" THEN [err |-> "none", val |-> sz]
        ELSE IF dim.val = 0 THEN [err |-> "none", val |-> sz[1]]
        ELSE IF dim.val = 1 THEN [err |-> "none", val |-> sz[2]]
        ELSE [err |-> "Exception", val |-> <<>>])

ColsCount(self) == Len(self[1])

RowsCount(self) == Len(self[1])

At(H, i, j) == H[i + 1][j + 1]

tr(H0) ==
    Bind2(H0, size(H0), LAMBDA H, sz :
        IF sz[1] = 0 \/ sz[2] = 0 THEN MatZeros(0, 0)
        ELSE MatRows([j \in 1..sz[2] |-> [i \in 1..sz[1] |-> H[i][j]]]))

\* range(lo, hi) as the sequence of its elements
Range(lo, hi) == [k \in 1..Max(hi - lo, 0) |-> lo + k - 1]

\* Mat.__getitem__ with two ranges: H[rg1, rg2]
GetBlock(H0, rg10, rg20) ==
    Bind2(H0, <<rg10, rg20>>, LAMBDA H, rg :
        Bind(MatZeros(Len(rg[1]), Len(rg[2])), LAMBDA newmat :
            [cm \in 1..Len(newmat) |->
                [cn \in 1..Len(newmat[cm]) |-> At(H, rg[1][cm], rg[2][cn])]]))

\* Mat.__setitem__: the shape test, and the assignment made when it passes
SetBlockOK(H, rg1, rg2, item) ==
    ~(Len(rg1) # size(item)[1] \/ Len(rg2) # size(item)[2])

\* position of index i in the range rg, 0 when i is not in it
PosIn(rg, i) ==
    IF \E c \in 1..Len(rg) : rg[c] = i THEN CHOOSE c \in 1..Len(rg) : rg[c] = i ELSE 0

SetBlock(H0, rg10, rg20, item0) ==
    Bind2(H0, <<rg10, rg20, item0>>, LAMBDA H, a :
        [i \in 1..Len(H) |->
            [j \in 1..Len(H[i]) |->
                IF PosIn(a[1], i - 1) > 0 /\ PosIn(a[2], j - 1) > 0
                THEN a[3][PosIn(a[1], i - 1)][PosIn(a[2], j - 1)]
                ELSE H[i][j]]])

\* Mat.__setitem__ with two int indices and a number: H[i, j] = value
SetItem(H, i, j, value) ==
    SetBlock(H, Range(i, i + 1), Range(j, j + 1), MatRows(<< <<value>> >>))

\* Mat.__mul__ with a number
mulScalar(H0, k) ==
    Bind(H0, LAMBDA H : [x \in 1..Len(H) |-> [y \in 1..Len(H[x]) |-> H[x][y] * k]])

\* Mat.__mul__ with a Mat: the size test, and the product made when it passes
mulOK(A, B) == ~(size(A)[2] # size(B)[1])

mul(A0, B0) ==
    Bind2(A0, B0, LAMBDA A, B :
        Bind2(tr(B), MatZeros(size(A)[1], size(B)[2]), LAMBDA mat_t, mulmat :
            [x \in 1..Len(mulmat) |->
                [y \in 1..Len(mulmat[x]) |->
                    IF y <= size(mat_t)[1]
                    THEN SumSeq([k \in 1..size(A)[2] |-> A[x][k] * mat_t[y][k]])
                    ELSE 0]]))

eye4 == MatRows(<< <<1, 0, 0, 0>>, <<0, 1, 0, 0>>, <<0, 0, 1, 0>>, <<0, 0, 0, 1>> >>)

RECURSIVE eyeFill(_, _, _)
eyeFill(newmat, i, n) ==
    IF i >= n THEN newmat ELSE eyeFill(SetItem(newmat, i, i, 1), i + 1, n)

eye(n) == IF n = 4 THEN eye4 ELSE eyeFill(MatZeros(n, n), 0, n)

\* the tolerance 1e-4 of isHomogeneous is 1/HomogeneousTolInv
HomogeneousTolInv == 10000

isHomogeneous(H0) ==
    Bind(H0, LAMBDA H :
        IF size(H)[1] # 4 \/ size(H)[2] # 4 THEN FALSE
        ELSE Bind(GetBlock(H, Range(0, 3), Range(0, 3)), LAMBDA test0 :
             Bind(mul(test0, tr(test0)), LAMBDA test1 :
             Bind(SetItem(test1, 0, 0, At(test1, 0, 0) - 1), LAMBDA test2 :
             Bind(SetItem(test2, 1, 1, At(test2, 1, 1) - 1), LAMBDA test3 :
             Bind(SetItem(test3, 2, 2, At(test3, 2, 2) - 1), LAMBDA test :
             Bind(SumSeq([k \in 1..9 |-> Abs(At(test, (k - 1) \div 3, (k - 1) % 3))]),
                  LAMBDA zero :
                      IF zero * HomogeneousTolInv > 1 THEN FALSE ELSE TRUE)))))))

\* class MatrixError(Exception): the exception classes by name, each with
\* the class it derives from; isinstance(e, cls) for an exception e of
\* class err
BaseOf == [MatrixError |-> "Exception", ZeroDivisionError |-> "Exception",
           IndexError |-> "Exception", ValueError |-> "Exception"]

IsInstance(err, cls) ==
    \/ err = cls
    \/ err \in DOMAIN BaseOf /\ BaseOf[err] = cls

\* results of operations: a value, or the exception raised
Value(v) == [err |-> "none", val |-> v]

Raise(e) == [err |-> e, val |-> <<>>]

\* invH with the sign of the translation lost
invH_NoNegate(H0) ==
    Bind(H0, LAMBDA H :
        IF ~isHomogeneous(H) THEN Raise("Exception")
        ELSE Bind(SetBlock(tr(H), Range(3, 4), Range(0, 3), MatRows(<< <<0, 0, 0>> >>)),
                  LAMBDA Hout :
                      Value(SetBlock(Hout, Range(0, 3), Range(3, 4),
                                     mul(GetBlock(Hout, Range(0, 3), Range(0, 3)),
                                         GetBlock(H, Range(0, 3), Range(3, 4)))))))

invH(H0) ==
    Bind(H0, LAMBDA H :
        IF ~isHomogeneous(H) THEN Raise("Exception")
        ELSE Bind(SetBlock(tr(H), Range(3, 4), Range(0, 3), MatRows(<< <<0, 0, 0>> >>)),
                  LAMBDA Hout :
                      Value(SetBlock(Hout, Range(0, 3), Range(3, 4),
                                     mulScalar(mul(GetBlock(Hout, Range(0, 3), Range(0, 3)),
                                                   GetBlock(H, Range(0, 3), Range(3, 4))),
                                               -1)))))

inv(H) == invH(H)

\* ------------------------------------------------------------------------
\* Mat: construction from lists, one-index access, arithmetic, concatenation.
\* An argument that may be a Mat, a list or a number is a record
\* [kind, val]: kind "Mat", "rows" (a list of row lists), "flat" (a list of
\* numbers) or "number".

Min(a, b) == IF a <= b THEN a ELSE b

\* slice(lo, hi).indices(n) as a range, for 0 <= lo and 0 <= hi
Slice(lo, hi, n) == Range(Min(lo, n), Min(hi, n))

\* Mat(rows) for a flat list: the list is one row, then transposed
MatFlat(rows) ==
    IF Len(rows) = 0 THEN << <<>> >>
    ELSE [k \in 1..Len(rows) |-> <<rows[k]>>]

\* Mat.__setitem__ with two ranges: raises on a shape mismatch
setitem(H, rg1, rg2, item) ==
    IF ~SetBlockOK(H, rg1, rg2, item) THEN Raise("Exception")
    ELSE Value(SetBlock(H, rg1, rg2, item))

\* Mat.__setitem__ when rows of item are rows of H itself: alias[r] is the
\* row of H (from 1) that row r of item is, 0 when it is a list of its own.
\* The loop reads item.rows[cm][cn] after the writes made before it.
RECURSIVE SetLoop(_, _, _, _, _, _)
SetLoop(H, rg1, rg2, item, alias, k) ==
    IF k >= Len(rg1) * Len(rg2) THEN H
    ELSE LET cm == k \div Len(rg2)
             cn == k % Len(rg2)
             row == IF alias[cm + 1] > 0 THEN H[alias[cm + 1]] ELSE item[cm + 1]
         IN  SetLoop([H EXCEPT ![rg1[cm + 1] + 1][rg2[cn + 1] + 1] = row[cn + 1]],
                     rg1, rg2, item, alias, k + 1)

SetBlockShared(H, rg1, rg2, item, alias) ==
    IF ~SetBlockOK(H, rg1, rg2, item) THEN Raise("Exception")
    ELSE Value(SetLoop(H, rg1, rg2, item, alias, 0))

\* Mat.copy
copy(H0) ==
    Bind2(H0, size(H0), LAMBDA H, sz :
        SetBlock(MatZeros(sz[1], sz[2]), Range(0, sz[1]), Range(0, sz[2]), H))

\* Mat(rows) for an argument record
MatOf(b) ==
    CASE b.kind = "Mat" -> MatRows(copy(b.val))
      [] b.kind = "rows" -> MatRows(b.val)
      [] b.kind = "flat" -> MatFlat(b.val)

\* Mat.__getitem__ with an int: H[idx]
GetRow(H, idx) == tr(MatFlat(H[idx + 1]))

\* Mat.__getitem__ with one slice: H[lo:hi]
GetSlice(H, lo, hi) == MatRows(SubSeq(H, Min(lo, Len(H)) + 1, Min(hi, Len(H))))

\* Mat.__add__
add(A0, b) ==
    Bind(A0, LAMBDA A :
        IF b.kind = "number"
        THEN Value([x \in 1..Len(A) |-> [y \in 1..Len(A[x]) |-> A[x][y] + b.val]])
        ELSE IF size(A) # size(b.val) THEN Raise("Exception")
        ELSE Value([x \in 1..Len(A) |-> [y \in 1..Len(A[x]) |-> A[x][y] + b.val[x][y]]]))

\* Mat.__sub__
sub(A0, b) ==
    Bind(A0, LAMBDA A :
        IF b.kind = "number"
        THEN Value([x \in 1..Len(A) |-> [y \in 1..Len(A[x]) |-> A[x][y] - b.val]])
        ELSE IF size(A) # size(b.val) THEN Raise("Exception")
        ELSE Value([x \in 1..Len(A) |-> [y \in 1..Len(A[x]) |-> A[x][y] - b.val[x][y]]]))

\* Mat.__mul__ with a number or a Mat: the loop writes mulmat.rows[x][y] for
\* every row y of mat.tr(), which mulmat does not have when mat has no columns
matmul(A0, b) ==
    Bind(A0, LAMBDA A :
        IF b.kind = "number" THEN Value(mulScalar(A, b.val))
        ELSE IF ~mulOK(A, b.val) THEN Raise("Exception")
        ELSE IF size(tr(b.val))[1] > size(b.val)[2] THEN Raise("IndexError")
        ELSE Value(mul(A, b.val)))

\* Mat.catH
catH(self0, mat20) ==
    Bind2(self0, IF mat20.kind = "Mat" THEN mat20.val ELSE MatOf(mat20), LAMBDA self, mat2 :
        Bind2(size(self), size(mat2), LAMBDA sz1, sz2 :
            IF sz1[1] # sz2[1] THEN Raise("Exception")
            ELSE Bind(MatZeros(sz1[1], sz1[2] + sz2[2]), LAMBDA newmat :
                 Bind(setitem(newmat, Slice(0, size(newmat)[1], size(newmat)[1]),
                              Slice(0, sz1[2], size(newmat)[2]), self), LAMBDA r1 :
                     IF r1.err # "none" THEN r1
                     ELSE setitem(r1.val, Slice(0, size(newmat)[1], size(newmat)[1]),
                                  Slice(sz1[2], size(newmat)[2], size(newmat)[2]), mat2)))))

\* Mat.catV: an argument that is not a Mat is handed to catH
catV(self0, mat20) ==
    IF mat20.kind # "Mat" THEN catH(self0, [kind |-> "Mat", val |-> tr(MatOf(mat20))])
    ELSE Bind2(self0, mat20.val, LAMBDA self, mat2 :
        Bind2(size(self), size(mat2), LAMBDA sz1, sz2 :
            IF sz1[2] # sz2[2] THEN Raise("Exception")
            ELSE Bind(MatZeros(sz1[1] + sz2[1], sz1[2]), LAMBDA newmat :
                 Bind(setitem(newmat, Slice(0, sz1[1], size(newmat)[1]),
                              Slice(0, size(newmat)[2], size(newmat)[2]), self), LAMBDA r1 :
                     IF r1.err # "none" THEN r1
                     ELSE setitem(r1.val, Slice(sz1[1], size(newmat)[1], size(newmat)[1]),
                                  Slice(0, size(newmat)[2], size(newmat)[2]), mat2)))))

\* Mat.__mul__ with a list mat: the product with the vector as a column, with
\* a 1 appended when the list is one entry short of the rows of self; the
\* result is a list
mulVector(self0, mat0) ==
    Bind2(self0, mat0, LAMBDA self, mat :
        Bind2(size(self)[1], MatFlat(mat), LAMBDA m, matvect :
            IF Len(mat) + 1 = m
            THEN Bind(catV(matvect, [kind |-> "Mat", val |-> MatRows(<< <<1>> >>)]), LAMBDA vectok :
                     IF vectok.err # "none" THEN vectok
                     ELSE Bind(matmul(self, [kind |-> "Mat", val |-> vectok.val]), LAMBDA result :
                              IF result.err # "none" THEN result
                              ELSE Value(tr(GetBlock(result.val,
                                                     Range(0, size(result.val)[1] - 1),
                                                     Range(0, size(result.val)[2])))[1])))
            ELSE IF Len(mat) = m
            THEN Bind(matmul(self, [kind |-> "Mat", val |-> MatOf([kind |-> "Mat", val |-> matvect])]),
                      LAMBDA result :
                          IF result.err # "none" THEN result ELSE Value(tr(result.val)[1]))
            ELSE Raise("Exception")))

\* ------------------------------------------------------------------------
\* Pose constructors

rotx(rx) ==
    LET ct == cos(rx)
        st == sin(rx)
    IN  MatRows(<< <<1, 0, 0, 0>>, <<0, ct, -st, 0>>, <<0, st, ct, 0>>, <<0, 0, 0, 1>> >>)

roty(ry) ==
    LET ct == cos(ry)
        st == sin(ry)
    IN  MatRows(<< <<ct, 0, st, 0>>, <<0, 1, 0, 0>>, <<-st, 0, ct, 0>>, <<0, 0, 0, 1>> >>)

rotz(rz) ==
    LET ct == cos(rz)
        st == sin(rz)
    IN  MatRows(<< <<ct, -st, 0, 0>>, <<st, ct, 0, 0>>, <<0, 0, 1, 0>>, <<0, 0, 0, 1>> >>)

transl(tx, ty, tz) ==
    MatRows(<< <<1, 0, 0, tx>>, <<0, 1, 0, ty>>, <<0, 0, 1, tz>>, <<0, 0, 0, 1>> >>)

\* ------------------------------------------------------------------------
\* Euler-angle converters.  Angles in radians are quarter turns (pi == 2),
\* angles in degrees are integers.

\* x > 1.0 - 1e-10 and x < -1.0 + 1e-10 for an integer-valued x: the band is
\* narrower than the grid, so x is above it iff x - 1 >= 0, below iff x + 1 <= 0
AboveBand(x) == x - 1 >= 0

BelowBand(x) == x + 1 <= 0

\* PosePP with r turning about X and w about Z
PosePP_RollFirst(x, y, z, r, p, w) ==
    LET a == (r * pi) \div 180
        b == (p * pi) \div 180
        c == (w * pi) \div 180
        ca == cos(a)
        sa == sin(a)
        cb == cos(b)
        sb == sin(b)
        cc == cos(c)
        sc == sin(c)
    IN  MatRows(<< <<cb * cc, cc * sa * sb - ca * sc, sa * sc + ca * cc * sb, x>>,
                   <<cb * sc, ca * cc + sa * sb * sc, ca * sb * sc - cc * sa, y>>,
                   <<-sb, cb * sa, ca * cb, z>>,
                   <<0, 0, 0, 1>> >>)

PosePP(x, y, z, r, p, w) ==
    LET a == (r * pi) \div 180
        b == (p * pi) \div 180
        c == (w * pi) \div 180
        ca == cos(a)
        sa == sin(a)
        cb == cos(b)
        sb == sin(b)
        cc == cos(c)
        sc == sin(c)
    IN  MatRows(<< <<cb * ca, ca * sc * sb - cc * sa, sc * sa + cc * ca * sb, x>>,
                   <<cb * sa, cc * ca + sc * sb * sa, cc * sb * sa - ca * sc, y>>,
                   <<-sb, cb * sc, cc * cb, z>>,
                   <<0, 0, 0, 1>> >>)

\* pose_2_xyzrpw with the sign of R[1,2] lost in the upper singular band
pose_2_xyzrpw_BandSign(H) ==
    LET x == At(H, 0, 3)
        y == At(H, 1, 3)
        z == At(H, 2, 3)
        band == IF AboveBand(At(H, 2, 0)) THEN 1
                ELSE IF BelowBand(At(H, 2, 0)) THEN 2 ELSE 3
        sq == At(H, 0, 0) * At(H, 0, 0) + At(H, 1, 0) * At(H, 1, 0)
        p == CASE band = 1 -> -pi \div 2
               [] band = 2 -> pi \div 2
               [] band = 3 -> atan2(-At(H, 2, 0), sqrt(sq))
        r == CASE band = 1 -> 0
               [] band = 2 -> 0
               [] band = 3 -> atan2(At(H, 2, 1), At(H, 2, 2))
        w == CASE band = 1 -> atan2(At(H, 1, 2), At(H, 1, 1))
               [] band = 2 -> atan2(At(H, 1, 2), At(H, 1, 1))
               [] band = 3 -> atan2(At(H, 1, 0), At(H, 0, 0))
    IN  IF band = 3 /\ ~sqrtDefined(sq) THEN Raise("ValueError")
        ELSE Value(<<x, y, z, (r * 180) \div pi, (p * 180) \div pi, (w * 180) \div pi>>)

pose_2_xyzrpw(H) ==
    LET x == At(H, 0, 3)
        y == At(H, 1, 3)
        z == At(H, 2, 3)
        band == IF AboveBand(At(H, 2, 0)) THEN 1
                ELSE IF BelowBand(At(H, 2, 0)) THEN 2 ELSE 3
        sq == At(H, 0, 0) * At(H, 0, 0) + At(H, 1, 0) * At(H, 1, 0)
        p == CASE band = 1 -> -pi \div 2
               [] band = 2 -> pi \div 2
               [] band = 3 -> atan2(-At(H, 2, 0), sqrt(sq))
        r == CASE band = 1 -> 0
               [] band = 2 -> 0
               [] band = 3 -> atan2(At(H, 2, 1), At(H, 2, 2))
        w == CASE band = 1 -> atan2(-At(H, 1, 2), At(H, 1, 1))
               [] band = 2 -> atan2(At(H, 1, 2), At(H, 1, 1))
               [] band = 3 -> atan2(At(H, 1, 0), At(H, 0, 0))
    IN  IF band = 3 /\ ~sqrtDefined(sq) THEN Raise("ValueError")
        ELSE Value(<<x, y, z, (r * 180) \div pi, (p * 180) \div pi, (w * 180) \div pi>>)

xyzrpw_2_pose(xyzrpw) ==
    LET x == xyzrpw[1]
        y == xyzrpw[2]
        z == xyzrpw[3]
        a == (xyzrpw[4] * pi) \div 180
        b == (xyzrpw[5] * pi) \div 180
        c == (xyzrpw[6] * pi) \div 180
        ca == cos(a)
        sa == sin(a)
        cb == cos(b)
        sb == sin(b)
        cc == cos(c)
        sc == sin(c)
    IN  MatRows(<< <<cb * cc, cc * sa * sb - ca * sc, sa * sc + ca * cc * sb, x>>,
                   <<cb * sc, ca * cc + sa * sb * sc, ca * sb * sc - cc * sa, y>>,
                   <<-sb, cb * sa, ca * cb, z>>,
                   <<0, 0, 0, 1>> >>)

Pose(x, y, z, rxd, ryd, rzd) ==
    LET rx == (rxd * pi) \div 180
        ry == (ryd * pi) \div 180
        rz == (rzd * pi) \div 180
        srx == sin(rx)
        crx == cos(rx)
        sry == sin(ry)
        cry == cos(ry)
        srz == sin(rz)
        crz == cos(rz)
    IN  MatRows(<< <<cry * crz, -cry * srz, sry, x>>,
                   <<crx * srz + crz * srx * sry, crx * crz - srx * sry * srz, -cry * srx, y>>,
                   <<srx * srz - crx * crz * sry, crz * srx + crx * sry * srz, crx * cry, z>>,
                   <<0, 0, 0, 1>> >>)

\* TxyzRxyz_2_Pose with the sign of the entry [1,2] lost
TxyzRxyz_2_Pose_EntrySign(xyzrpw) ==
    LET x == xyzrpw[1]
        y == xyzrpw[2]
        z == xyzrpw[3]
        rx == xyzrpw[4]
        ry == xyzrpw[5]
        rz == xyzrpw[6]
        srx == sin(rx)
        crx == cos(rx)
        sry == sin(ry)
        cry == cos(ry)
        srz == sin(rz)
        crz == cos(rz)
    IN  MatRows(<< <<cry * crz, -cry * srz, sry, x>>,
                   <<crx * srz + crz * srx * sry, crx * crz - srx * sry * srz, cry * srx, y>>,
                   <<srx * srz - crx * crz * sry, crz * srx + crx * sry * srz, crx * cry, z>>,
                   <<0, 0, 0, 1>> >>)

TxyzRxyz_2_Pose(xyzrpw) ==
    LET x == xyzrpw[1]
        y == xyzrpw[2]
        z == xyzrpw[3]
        rx == xyzrpw[4]
        ry == xyzrpw[5]
        rz == xyzrpw[6]
        srx == sin(rx)
        crx == cos(rx)
        sry == sin(ry)
        cry == cos(ry)
        srz == sin(rz)
        crz == cos(rz)
    IN  MatRows(<< <<cry * crz, -cry * srz, sry, x>>,
                   <<crx * srz + crz * srx * sry, crx * crz - srx * sry * srz, -cry * srx, y>>,
                   <<srx * srz - crx * crz * sry, crz * srx + crx * sry * srz, crx * cry, z>>,
                   <<0, 0, 0, 1>> >>)

\* Pose_2_TxyzRxyz with ry = +pi/2 in both singular bands
Pose_2_TxyzRxyz_OneBand(H) ==
    LET x == At(H, 0, 3)
        y == At(H, 1, 3)
        z == At(H, 2, 3)
        a == At(H, 0, 0)
        b == At(H, 0, 1)
        c == At(H, 0, 2)
        d == At(H, 1, 2)
        e == At(H, 2, 2)
    IN  IF AboveBand(c) \/ BelowBand(c)
        THEN Value(<<x, y, z, 0, pi \div 2, atan2(At(H, 1, 0), At(H, 1, 1))>>)
        ELSE LET sy == c
                 cy1 == sqrt(1 - sy * sy)
                 sx1 == (-d) \div cy1
                 cx1 == e \div cy1
                 sz1 == (-b) \div cy1
                 cz1 == a \div cy1
                 rx1 == atan2(sx1, cx1)
                 ry1 == atan2(sy, cy1)
                 rz1 == atan2(sz1, cz1)
             IN  Value(<<x, y, z, rx1, ry1, rz1>>)

Pose_2_TxyzRxyz(H) ==
    LET x == At(H, 0, 3)
        y == At(H, 1, 3)
        z == At(H, 2, 3)
        a == At(H, 0, 0)
        b == At(H, 0, 1)
        c == At(H, 0, 2)
        d == At(H, 1, 2)
        e == At(H, 2, 2)
    IN  IF AboveBand(c)
        THEN Value(<<x, y, z, 0, pi \div 2, atan2(At(H, 1, 0), At(H, 1, 1))>>)
        ELSE IF BelowBand(c)
        THEN Value(<<x, y, z, 0, -pi \div 2, atan2(At(H, 1, 0), At(H, 1, 1))>>)
        ELSE LET sy == c
             IN  IF ~sqrtDefined(1 - sy * sy) THEN Raise("ValueError")
                 ELSE LET cy1 == sqrt(1 - sy * sy)
                      IN  IF cy1 = 0 THEN Raise("ZeroDivisionError")
                          ELSE LET sx1 == (-d) \div cy1
                                   cx1 == e \div cy1
                                   sz1 == (-b) \div cy1
                                   cz1 == a \div cy1
                                   rx1 == atan2(sx1, cx1)
                                   ry1 == atan2(sy, cy1)
                                   rz1 == atan2(sz1, cz1)
                               IN  Value(<<x, y, z, rx1, ry1, rz1>>)

\* Pose_2_Staubli leaving the angles in radians
Pose_2_Staubli_Radians(H) == Pose_2_TxyzRxyz(H)

Pose_2_Staubli(H) ==
    LET xyzwpr == Pose_2_TxyzRxyz(H)
    IN  IF xyzwpr.err # "none" THEN xyzwpr
        ELSE Value(<<xyzwpr.val[1], xyzwpr.val[2], xyzwpr.val[3],
                     (xyzwpr.val[4] * 180) \div pi,
                     (xyzwpr.val[5] * 180) \div pi,
                     (xyzwpr.val[6] * 180) \div pi>>)

Pose_2_Motoman(H) == pose_2_xyzrpw(H)

Pose_2_Fanuc(H) == pose_2_xyzrpw(H)

Pose_2_Techman(H) == pose_2_xyzrpw(H)

Motoman_2_Pose(xyzwpr) == xyzrpw_2_pose(xyzwpr)

Fanuc_2_Pose(xyzwpr) == xyzrpw_2_pose(xyzwpr)

Techman_2_Pose(xyzwpr) == xyzrpw_2_pose(xyzwpr)

\* Pose_2_KUKA returning the angles in the order of pose_2_xyzrpw
Pose_2_KUKA_NoSwap(H) ==
    LET x == At(H, 0, 3)
        y == At(H, 1, 3)
        z == At(H, 2, 3)
        band == IF AboveBand(At(H, 2, 0)) THEN 1
                ELSE IF BelowBand(At(H, 2, 0)) THEN 2 ELSE 3
        sq == At(H, 0, 0) * At(H, 0, 0) + At(H, 1, 0) * At(H, 1, 0)
        p == CASE band = 1 -> -pi \div 2
               [] band = 2 -> pi \div 2
               [] band = 3 -> atan2(-At(H, 2, 0), sqrt(sq))
        r == CASE band = 1 -> 0
               [] band = 2 -> 0
               [] band = 3 -> atan2(At(H, 2, 1), At(H, 2, 2))
        w == CASE band = 1 -> atan2(-At(H, 1, 2), At(H, 1, 1))
               [] band = 2 -> atan2(At(H, 1, 2), At(H, 1, 1))
               [] band = 3 -> atan2(At(H, 1, 0), At(H, 0, 0))
    IN  IF band = 3 /\ ~sqrtDefined(sq) THEN Raise("ValueError")
        ELSE Value(<<x, y, z, (r * 180) \div pi, (p * 180) \div pi, (w * 180) \div pi>>)

Pose_2_KUKA(H) ==
    LET x == At(H, 0, 3)
        y == At(H, 1, 3)
        z == At(H, 2, 3)
        band == IF AboveBand(At(H, 2, 0)) THEN 1
                ELSE IF BelowBand(At(H, 2, 0)) THEN 2 ELSE 3
        sq == At(H, 0, 0) * At(H, 0, 0) + At(H, 1, 0) * At(H, 1, 0)
        p == CASE band = 1 -> -pi \div 2
               [] band = 2 -> pi \div 2
               [] band = 3 -> atan2(-At(H, 2, 0), sqrt(sq))
        r == CASE band = 1 -> 0
               [] band = 2 -> 0
               [] band = 3 -> atan2(At(H, 2, 1), At(H, 2, 2))
        w == CASE band = 1 -> atan2(-At(H, 1, 2), At(H, 1, 1))
               [] band = 2 -> atan2(At(H, 1, 2), At(H, 1, 1))
               [] band = 3 -> atan2(At(H, 1, 0), At(H, 0, 0))
    IN  IF band = 3 /\ ~sqrtDefined(sq) THEN Raise("ValueError")
        ELSE Value(<<x, y, z, (w * 180) \div pi, (p * 180) \div pi, (r * 180) \div pi>>)

KUKA_2_Pose(xyzrpw) ==
    LET x == xyzrpw[1]
        y == xyzrpw[2]
        z == xyzrpw[3]
        a == (xyzrpw[4] * pi) \div 180
        b == (xyzrpw[5] * pi) \div 180
        c == (xyzrpw[6] * pi) \div 180
        ca == cos(a)
        sa == sin(a)
        cb == cos(b)
        sb == sin(b)
        cc == cos(c)
        sc == sin(c)
    IN  MatRows(<< <<cb * ca, ca * sc * sb - cc * sa, sc * sa + cc * ca * sb, x>>,
                   <<cb * sa, cc * ca + sc * sb * sa, cc * sb * sa - ca * sc, y>>,
                   <<-sb, cb * sc, cc * cb, z>>,
                   <<0, 0, 0, 1>> >>)

Adept_2_Pose(xyzrpw) ==
    LET x == xyzrpw[1]
        y == xyzrpw[2]
        z == xyzrpw[3]
        a == (xyzrpw[4] * pi) \div 180
        b == (xyzrpw[5] * pi) \div 180
        c == (xyzrpw[6] * pi) \div 180
        ca == cos(a)
        sa == sin(a)
        cb == cos(b)
        sb == sin(b)
        cc == cos(c)
        sc == sin(c)
    IN  MatRows(<< <<ca * cb * cc - sa * sc, -cc * sa - ca * cb * sc, ca * sb, x>>,
                   <<ca * sc + cb * cc * sa, ca * cc - cb * sa * sc, sa * sb, y>>,
                   <<-cc * sb, sb * sc, cb, z>>,
                   <<0, 0, 0, 1>> >>)

Pose_2_Adept(H) ==
    LET x == At(H, 0, 3)
        y == At(H, 1, 3)
        z == At(H, 2, 3)
    IN  IF AboveBand(At(H, 2, 2))
        THEN Value(<<x, y, z, (0 * 180) \div pi, (0 * 180) \div pi,
                     (atan2(At(H, 1, 0), At(H, 0, 0)) * 180) \div pi>>)
        ELSE IF BelowBand(At(H, 2, 2))
        THEN Value(<<x, y, z, (0 * 180) \div pi, (pi * 180) \div pi,
                     (atan2(At(H, 1, 0), At(H, 1, 1)) * 180) \div pi>>)
        ELSE LET cb == At(H, 2, 2)
             IN  IF ~sqrtDefined(1 - cb * cb) THEN Raise("ValueError")
                 ELSE LET sb == sqrt(1 - cb * cb)
                      IN  IF sb = 0 THEN Raise("ZeroDivisionError")
                          ELSE LET sc == At(H, 2, 1) \div sb
                                   cc == (-At(H, 2, 0)) \div sb
                                   sa == At(H, 1, 2) \div sb
                                   ca == At(H, 0, 2) \div sb
                                   r == atan2(sa, ca)
                                   p == atan2(sb, cb)
                                   w == atan2(sc, cc)
                               IN  Value(<<x, y, z, (r * 180) \div pi, (p * 180) \div pi,
                                           (w * 180) \div pi>>)

Comau_2_Pose(xyzrpw) == Adept_2_Pose(xyzrpw)

Pose_2_Comau(H) == Pose_2_Adept(H)

Pose_2_Nachi(pose) ==
    LET v == pose_2_xyzrpw(pose)
    IN  IF v.err # "none" THEN v
        ELSE Value(<<v.val[1], v.val[2], v.val[3], v.val[6], v.val[5], v.val[4]>>)

Nachi_2_Pose(xyzwpr) == xyzrpw_2_pose(xyzwpr)

\* ------------------------------------------------------------------------
\* Quaternions and rotation vectors.  A quaternion [q1,q2,q3,q4] and a UR
\* target [x,y,z,u,v,w] are lists of reals.  A tolerance test x > c - tol is
\* x >= c on the grid, and x < c + tol is x <= c.

\* index (0-based) of the first largest element: d.index(max(d))
IndexOfMax(d) == (CHOOSE k \in 1..Len(d) :
                     /\ \A j \in 1..Len(d) : d[j] <= d[k]
                     /\ \A j \in 1..(k - 1) : d[j] < d[k]) - 1

\* min(max(value, -1.0), 1.0)
saturate_1(value) == RMin(RMax(value, Real(-1)), Real(1))

\* pose_2_quaternion without the + 1.0 on the pivot of the 180-degree branch
pose_2_quaternion_NoPivot(Ti) ==
    LET a == At(Ti, 0, 0)
        b == At(Ti, 1, 1)
        c == At(Ti, 2, 2)
    IN  Bind(RMin(RMax(RMul(Real(a + b + c - 1), RHalf), Real(-1)), Real(1)), LAMBDA cosangle :
            IF RLeq(Real(1), cosangle)
            THEN Value(<<Real(1), RZero, RZero, RZero>>)
            ELSE IF RLeq(cosangle, Real(-1))
            THEN LET diag == <<a, b, c>>
                     k == IndexOfMax(diag)
                     col == [i \in 1..3 |-> At(Ti, i - 1, k)]
                     den == sqrtA(Real(2 * (1 + diag[k + 1])))
                 IN  IF den = RZero THEN Raise("ZeroDivisionError")
                     ELSE Value(<<RZero, RDiv(Real(col[1]), den),
                                  RDiv(Real(col[2]), den), RDiv(Real(col[3]), den)>>)
            ELSE LET sign2 == IF At(Ti, 2, 1) - At(Ti, 1, 2) < 0 THEN -1 ELSE 1
                     sign3 == IF At(Ti, 0, 2) - At(Ti, 2, 0) < 0 THEN -1 ELSE 1
                     sign4 == IF At(Ti, 1, 0) - At(Ti, 0, 1) < 0 THEN -1 ELSE 1
                 IN  Value(<<RMul(Rsqrt(Real(Max(a + b + c + 1, 0))), RHalf),
                             RMul(Real(sign2), RMul(Rsqrt(Real(Max(a - b - c + 1, 0))), RHalf)),
                             RMul(Real(sign3), RMul(Rsqrt(Real(Max(-a + b - c + 1, 0))), RHalf)),
                             RMul(Real(sign4), RMul(Rsqrt(Real(Max(-a - b + c + 1, 0))), RHalf))>>))

pose_2_quaternion(Ti) ==
    LET a == At(Ti, 0, 0)
        b == At(Ti, 1, 1)
        c == At(Ti, 2, 2)
    IN  Bind(RMin(RMax(RMul(Real(a + b + c - 1), RHalf), Real(-1)), Real(1)), LAMBDA cosangle :
            IF RLeq(Real(1), cosangle)
            THEN Value(<<Real(1), RZero, RZero, RZero>>)
            ELSE IF RLeq(cosangle, Real(-1))
            THEN LET diag == <<a, b, c>>
                     k == IndexOfMax(diag)
                     col == [i \in 1..3 |->
                                IF i = k + 1 THEN At(Ti, i - 1, k) + 1 ELSE At(Ti, i - 1, k)]
                     den == sqrtA(Real(2 * (1 + diag[k + 1])))
                 IN  IF den = RZero THEN Raise("ZeroDivisionError")
                     ELSE Value(<<RZero, RDiv(Real(col[1]), den),
                                  RDiv(Real(col[2]), den), RDiv(Real(col[3]), den)>>)
            ELSE LET sign2 == IF At(Ti, 2, 1) - At(Ti, 1, 2) < 0 THEN -1 ELSE 1
                     sign3 == IF At(Ti, 0, 2) - At(Ti, 2, 0) < 0 THEN -1 ELSE 1
                     sign4 == IF At(Ti, 1, 0) - At(Ti, 0, 1) < 0 THEN -1 ELSE 1
                 IN  Value(<<RMul(Rsqrt(Real(Max(a + b + c + 1, 0))), RHalf),
                             RMul(Real(sign2), RMul(Rsqrt(Real(Max(a - b - c + 1, 0))), RHalf)),
                             RMul(Real(sign3), RMul(Rsqrt(Real(Max(-a + b - c + 1, 0))), RHalf)),
                             RMul(Real(sign4), RMul(Rsqrt(Real(Max(-a - b + c + 1, 0))), RHalf))>>))

\* 2*x*y
Twice(x, y) == RMul(Real(2), RMul(x, y))

\* the matrix literal with the signs of the q[0] terms exchanged
QuaternionMatrix_Conjugate(q0) ==
    Bind(q0, LAMBDA qs :
        LET q(i) == qs[i + 1]
            one == Real(1)
        IN  MatRows(<<
              <<RInt(RSub(RSub(one, Twice(q(2), q(2))), Twice(q(3), q(3)))),
                RInt(RAdd(Twice(q(1), q(2)), Twice(q(3), q(0)))),
                RInt(RSub(Twice(q(1), q(3)), Twice(q(2), q(0)))), 0>>,
              <<RInt(RSub(Twice(q(1), q(2)), Twice(q(3), q(0)))),
                RInt(RSub(RSub(one, Twice(q(1), q(1))), Twice(q(3), q(3)))),
                RInt(RAdd(Twice(q(2), q(3)), Twice(q(1), q(0)))), 0>>,
              <<RInt(RAdd(Twice(q(1), q(3)), Twice(q(2), q(0)))),
                RInt(RSub(Twice(q(2), q(3)), Twice(q(1), q(0)))),
                RInt(RSub(RSub(one, Twice(q(1), q(1))), Twice(q(2), q(2)))), 0>>,
              <<0, 0, 0, 1>> >>))

\* the matrix literal of quaternion_2_pose; q is indexed as in the code
QuaternionMatrix(q0) ==
    Bind(q0, LAMBDA qs :
        LET q(i) == qs[i + 1]
            one == Real(1)
        IN  MatRows(<<
              <<RInt(RSub(RSub(one, Twice(q(2), q(2))), Twice(q(3), q(3)))),
                RInt(RSub(Twice(q(1), q(2)), Twice(q(3), q(0)))),
                RInt(RAdd(Twice(q(1), q(3)), Twice(q(2), q(0)))), 0>>,
              <<RInt(RAdd(Twice(q(1), q(2)), Twice(q(3), q(0)))),
                RInt(RSub(RSub(one, Twice(q(1), q(1))), Twice(q(3), q(3)))),
                RInt(RSub(Twice(q(2), q(3)), Twice(q(1), q(0)))), 0>>,
              <<RInt(RSub(Twice(q(1), q(3)), Twice(q(2), q(0)))),
                RInt(RAdd(Twice(q(2), q(3)), Twice(q(1), q(0)))),
                RInt(RSub(RSub(one, Twice(q(1), q(1))), Twice(q(2), q(2)))), 0>>,
              <<0, 0, 0, 1>> >>))

\* quaternion_2_pose(qin): the result, and the list qin as the call leaves it
\* (q = qin binds q to the caller's list, and q[i] = q[i] / qnorm writes to it)
quaternion_2_pose(qin) ==
    Bind(Rsqrt(RAdd(RAdd(RMul(qin[1], qin[1]), RMul(qin[2], qin[2])),
                    RAdd(RMul(qin[3], qin[3]), RMul(qin[4], qin[4])))), LAMBDA qnorm :
        IF qnorm = RZero
        THEN [err |-> "ZeroDivisionError", val |-> <<>>, qin |-> qin]
        ELSE Bind([i \in 1..4 |-> RDiv(qin[i], qnorm)], LAMBDA q :
                 [err |-> "none", val |-> QuaternionMatrix(q), qin |-> q]))

\* Mat.setPos
setPos(H, newpos) ==
    SetItem(SetItem(SetItem(H, 0, 3, newpos[1]), 1, 3, newpos[2]), 2, 3, newpos[3])

\* Mat.setVX, setVY, setVZ for a vector of integers whose normalized
\* entries are integers: column col (from 0) becomes normalize3(v_xyz)
setV(H, col, v_xyz0) ==
    Bind(normalize3(<<Real(v_xyz0[1]), Real(v_xyz0[2]), Real(v_xyz0[3])>>), LAMBDA v_xyz :
        SetItem(SetItem(SetItem(H, 0, col, RInt(v_xyz[1])), 1, col, RInt(v_xyz[2])),
                2, col, RInt(v_xyz[3])))

\* the same for a vector of reals
setVReal(H, col, v_xyz0) ==
    Bind(normalize3(v_xyz0), LAMBDA v_xyz :
        SetItem(SetItem(SetItem(H, 0, col, RInt(v_xyz[1])), 1, col, RInt(v_xyz[2])),
                2, col, RInt(v_xyz[3])))

\* setVX storing the vector as it was handed in
setVX_Raw(H, v_xyz) ==
    SetItem(SetItem(SetItem(H, 0, 0, v_xyz[1]), 1, 0, v_xyz[2]), 2, 0, v_xyz[3])

setVX(H, v_xyz) == setV(H, 0, v_xyz)

setVY(H, v_xyz) == setV(H, 1, v_xyz)

setVZ(H, v_xyz) == setV(H, 2, v_xyz)

\* Mat.VX, VY, VZ: self[0:3, col].tolist()
VX(H) == tr(GetBlock(H, Range(0, 3), Range(0, 1)))[1]

VY(H) == tr(GetBlock(H, Range(0, 3), Range(1, 2)))[1]

VZ(H) == tr(GetBlock(H, Range(0, 3), Range(2, 3)))[1]

\* Mat.Pos: self[0:3, 3].tolist()
Pos(H) == <<At(H, 0, 3), At(H, 1, 3), At(H, 2, 3)>>

Rot33(H) == GetBlock(H, Range(0, 3), Range(0, 3))

\* ------------------------------------------------------------------------
\* Poses from a point and an axis

Reals3(v) == <<Real(v[1]), Real(v[2]), Real(v[3])>>

cross(a, b) ==
    <<RSub(RMul(a[2], b[3]), RMul(a[3], b[2])),
      RSub(RMul(a[3], b[1]), RMul(a[1], b[3])),
      RSub(RMul(a[1], b[2]), RMul(a[2], b[1]))>>

dot(a, b) == RAdd(RAdd(RMul(a[1], b[1]), RMul(a[2], b[2])), RMul(a[3], b[3]))

angle3(a, b) ==
    Bind(dot(normalize3(a), normalize3(b)), LAMBDA cos_angle :
        acos(RMin(Real(1), RMax(Real(-1), cos_angle))))

\* 0.03 rad in quarter turns: 0.03 * 2 / 3.14
HintTol == <<3, 157, 1>>

\* the hint used for an axis: hint2 when hint1 is within HintTol of the axis
\* or of its opposite
HintFor(axis, hint1, hint2) ==
    Bind(RAbs(angle3(axis, hint1)), LAMBDA delta :
        IF RLess(delta, HintTol) \/ RLess(RAbs(RSub(delta, Real(pi))), HintTol)
        THEN hint2 ELSE hint1)

\* the cross products that the three functions normalize
XaxisCross(xaxis) == cross(HintFor(xaxis, Reals3(<<0, 0, -1>>), Reals3(<<0, -1, 0>>)), xaxis)

YaxisCross(yaxis) == cross(yaxis, HintFor(yaxis, Reals3(<<0, 0, -1>>), Reals3(<<-1, 0, 0>>)))

ZaxisCross(zaxis) == cross(HintFor(zaxis, Reals3(<<0, 0, 1>>), Reals3(<<0, 1, 1>>)), zaxis)

\* point_Xaxis_2_pose with zaxis = cross(yaxis, xaxis)
point_Xaxis_2_pose_LeftHanded(point, xaxis0) ==
    Bind(Reals3(xaxis0), LAMBDA xaxis :
        Bind(normalize3(XaxisCross(xaxis)), LAMBDA yaxis :
            Bind(cross(yaxis, xaxis), LAMBDA zaxis :
                setVReal(setVReal(setVReal(setPos(eye(4), point), 0, xaxis), 1, yaxis),
                         2, zaxis))))

point_Xaxis_2_pose(point, xaxis0) ==
    Bind(Reals3(xaxis0), LAMBDA xaxis :
        Bind(normalize3(XaxisCross(xaxis)), LAMBDA yaxis :
            Bind(cross(xaxis, yaxis), LAMBDA zaxis :
                setVReal(setVReal(setVReal(setPos(eye(4), point), 0, xaxis), 1, yaxis),
                         2, zaxis))))

point_Yaxis_2_pose(point, yaxis0) ==
    Bind(Reals3(yaxis0), LAMBDA yaxis :
        Bind(normalize3(YaxisCross(yaxis)), LAMBDA xaxis :
            Bind(cross(xaxis, yaxis), LAMBDA zaxis :
                setVReal(setVReal(setVReal(setPos(eye(4), point), 1, yaxis), 0, xaxis),
                         2, zaxis))))

point_Zaxis_2_pose(point, zaxis0) ==
    Bind(Reals3(zaxis0), LAMBDA zaxis :
        Bind(normalize3(ZaxisCross(zaxis)), LAMBDA xaxis :
            Bind(cross(zaxis, xaxis), LAMBDA yaxis :
                setVReal(setVReal(setVReal(setPos(eye(4), point), 2, zaxis), 0, xaxis),
                         1, yaxis))))

\* Mat.translationPose
translationPose(H) == transl(Pos(H)[1], Pos(H)[2], Pos(H)[3])

pose_angle(pose) ==
    acos(RMin(RMax(RMul(Real(At(pose, 0, 0) + At(pose, 1, 1) + At(pose, 2, 2) - 1), RHalf),
                   Real(-1)), Real(1)))

\* Pose_2_UR without normalize3 in the general branch
Pose_2_UR_NoNormalize(pose) ==
    LET xyz == <<Real(At(pose, 0, 3)), Real(At(pose, 1, 3)), Real(At(pose, 2, 3))>>
        rxyz0 == <<Real(At(pose, 2, 1) - At(pose, 1, 2)),
                   Real(At(pose, 0, 2) - At(pose, 2, 0)),
                   Real(At(pose, 1, 0) - At(pose, 0, 1))>>
        Result(rxyz) == Value(<<xyz[1], xyz[2], xyz[3], rxyz[1], rxyz[2], rxyz[3]>>)
    IN  Bind(acos(saturate_1(RMul(Real(At(pose, 0, 0) + At(pose, 1, 1) + At(pose, 2, 2) - 1),
                                  RHalf))), LAMBDA angle :
            IF RLeq(angle, RZero) THEN Result(<<RZero, RZero, RZero>>)
            ELSE IF RLeq(RAbs(Rsin(angle)), RZero) \/ RLeq(norm(rxyz0), RZero)
            THEN LET d3 == <<At(pose, 0, 0), At(pose, 1, 1), At(pose, 2, 2)>>
                     mx_id == IndexOfMax(d3)
                     mx == d3[mx_id + 1]
                     rxyz == [i \in 1..3 |->
                                 Real(IF i = mx_id + 1 THEN At(pose, i - 1, mx_id) + 1
                                      ELSE At(pose, i - 1, mx_id))]
                     den == Rsqrt(Real(Max(0, 2 * (1 + mx))))
                 IN  IF den = RZero THEN Raise("ZeroDivisionError")
                     ELSE Result(mult3(rxyz, RDiv(angle, den)))
            ELSE Result(mult3(rxyz0, angle)))

Pose_2_UR(pose) ==
    LET xyz == <<Real(At(pose, 0, 3)), Real(At(pose, 1, 3)), Real(At(pose, 2, 3))>>
        rxyz0 == <<Real(At(pose, 2, 1) - At(pose, 1, 2)),
                   Real(At(pose, 0, 2) - At(pose, 2, 0)),
                   Real(At(pose, 1, 0) - At(pose, 0, 1))>>
        Result(rxyz) == Value(<<xyz[1], xyz[2], xyz[3], rxyz[1], rxyz[2], rxyz[3]>>)
    IN  Bind(acos(saturate_1(RMul(Real(At(pose, 0, 0) + At(pose, 1, 1) + At(pose, 2, 2) - 1),
                                  RHalf))), LAMBDA angle :
            IF RLeq(angle, RZero) THEN Result(<<RZero, RZero, RZero>>)
            ELSE IF RLeq(RAbs(Rsin(angle)), RZero) \/ RLeq(norm(rxyz0), RZero)
            THEN LET d3 == <<At(pose, 0, 0), At(pose, 1, 1), At(pose, 2, 2)>>
                     mx_id == IndexOfMax(d3)
                     mx == d3[mx_id + 1]
                     rxyz == [i \in 1..3 |->
                                 Real(IF i = mx_id + 1 THEN At(pose, i - 1, mx_id) + 1
                                      ELSE At(pose, i - 1, mx_id))]
                     den == Rsqrt(Real(Max(0, 2 * (1 + mx))))
                 IN  IF den = RZero THEN Raise("ZeroDivisionError")
                     ELSE Result(mult3(rxyz, RDiv(angle, den)))
            ELSE Result(mult3(normalize3(rxyz0), angle)))

UR_2_Pose(xyzwpr) ==
    LET wpr == <<xyzwpr[4], xyzwpr[5], xyzwpr[6]>>
    IN  Bind(norm(wpr), LAMBDA angle :
            LET cosang == Rcos(RMul(RHalf, angle))
                q234 == IF angle = RZero THEN <<RZero, RZero, RZero>>
                        ELSE mult3(wpr, RDiv(Rsin(RMul(RHalf, angle)), angle))
            IN  Bind(quaternion_2_pose(<<cosang, q234[1], q234[2], q234[3]>>), LAMBDA pose :
                    IF pose.err # "none" THEN Raise(pose.err)
                    ELSE Value(setPos(pose.val,
                                      <<RInt(xyzwpr[1]), RInt(xyzwpr[2]), RInt(xyzwpr[3])>>))))

\* int(a): truncation toward zero
RTrunc(a) == Sign(a[1]) * RFloor(RAbs(a))

\* Pose_Split looping over range(steps)
Pose_Split_Inclusive(pose1, pose2, delta_mm) ==
    Bind(invH(pose1), LAMBDA inv1 :
        IF inv1.err # "none" THEN inv1
        ELSE IF ~mulOK(inv1.val, pose2) THEN Raise("Exception")
        ELSE Bind(mul(inv1.val, pose2), LAMBDA pose_delta :
             Bind(norm(<<Real(Pos(pose_delta)[1]), Real(Pos(pose_delta)[2]),
                         Real(Pos(pose_delta)[3])>>), LAMBDA distance :
                 IF RLeq(distance, Real(delta_mm)) THEN Value(<<pose2>>)
                 ELSE Bind(Pose_2_UR(pose_delta), LAMBDA ur :
                      IF ur.err # "none" THEN ur
                      ELSE IF delta_mm = 0 THEN Raise("ZeroDivisionError")
                      ELSE Bind(Max(1, RTrunc(RDiv(distance, Real(delta_mm)))), LAMBDA steps :
                           LET d == [k \in 1..6 |-> RDiv(ur.val[k], Real(steps))]
                           IN  Value([factor \in 1..steps |->
                                   mul(pose1,
                                       UR_2_Pose([k \in 1..6 |-> RMul(d[k], Real(factor))]).val)]))))))

\* Pose_Split counting one step per 2*delta_mm
Pose_Split_CoarseSteps(pose1, pose2, delta_mm) ==
    Bind(invH(pose1), LAMBDA inv1 :
        IF inv1.err # "none" THEN inv1
        ELSE IF ~mulOK(inv1.val, pose2) THEN Raise("Exception")
        ELSE Bind(mul(inv1.val, pose2), LAMBDA pose_delta :
             Bind(norm(<<Real(Pos(pose_delta)[1]), Real(Pos(pose_delta)[2]),
                         Real(Pos(pose_delta)[3])>>), LAMBDA distance :
                 IF RLeq(distance, Real(delta_mm)) THEN Value(<<pose2>>)
                 ELSE Bind(Pose_2_UR(pose_delta), LAMBDA ur :
                      IF ur.err # "none" THEN ur
                      ELSE IF delta_mm = 0 THEN Raise("ZeroDivisionError")
                      ELSE Bind(Max(1, RTrunc(RDiv(distance, Real(2 * delta_mm)))), LAMBDA steps :
                           LET d == [k \in 1..6 |-> RDiv(ur.val[k], Real(steps))]
                           IN  Value([factor \in 1..(steps - 1) |->
                                   mul(pose1,
                                       UR_2_Pose([k \in 1..6 |-> RMul(d[k], Real(factor))]).val)]))))))

Pose_Split(pose1, pose2, delta_mm) ==
    Bind(invH(pose1), LAMBDA inv1 :
        IF inv1.err # "none" THEN inv1
        ELSE IF ~mulOK(inv1.val, pose2) THEN Raise("Exception")
        ELSE Bind(mul(inv1.val, pose2), LAMBDA pose_delta :
             Bind(norm(<<Real(Pos(pose_delta)[1]), Real(Pos(pose_delta)[2]),
                         Real(Pos(pose_delta)[3])>>), LAMBDA distance :
                 IF RLeq(distance, Real(delta_mm)) THEN Value(<<pose2>>)
                 ELSE Bind(Pose_2_UR(pose_delta), LAMBDA ur :
                      IF ur.err # "none" THEN ur
                      ELSE IF delta_mm = 0 THEN Raise("ZeroDivisionError")
                      ELSE Bind(Max(1, RTrunc(RDiv(distance, Real(delta_mm)))), LAMBDA steps :
                           LET d == [k \in 1..6 |-> RDiv(ur.val[k], Real(steps))]
                           IN  Value([factor \in 1..(steps - 1) |->
                                   mul(pose1,
                                       UR_2_Pose([k \in 1..6 |-> RMul(d[k], Real(factor))]).val)]))))))

\* ------------------------------------------------------------------------
\* Joint conversions.  jout is the list jin itself: the assignments are made
\* in order, on the caller's list, which is also what is returned.

\* jout[idx] = value, idx from 0
SetJoint(jout, idx, value) == [jout EXCEPT ![idx + 1] = value]

\* jout[idx] = -jin[idx]
NegJoint(jout, idx) == SetJoint(jout, idx, -jout[idx + 1])

joints_2_angles(jin, type) ==
    CASE type = 2 ->
             NegJoint(NegJoint(NegJoint(SetJoint(jin, 2, -jin[2] - jin[3]), 3), 4), 5)
      [] type = 3 -> NegJoint(NegJoint(NegJoint(NegJoint(jin, 2), 3), 4), 5)
      [] type = 4 -> SetJoint(jin, 2, jin[2] + jin[3])
      [] type = 11 ->
             NegJoint(NegJoint(NegJoint(SetJoint(jin, 2, -jin[2] - jin[3]), 0), 3), 5)
      [] OTHER -> jin

angles_2_joints(jin, type) ==
    CASE type = 2 ->
             NegJoint(NegJoint(NegJoint(SetJoint(jin, 2, -jin[2] - jin[3]), 3), 4), 5)
      [] type = 3 -> NegJoint(NegJoint(NegJoint(NegJoint(jin, 2), 3), 4), 5)
      [] type = 11 ->
             NegJoint(NegJoint(NegJoint(SetJoint(jin, 2, -jin[2] - jin[3]), 0), 3), 5)
      [] OTHER -> jin

\* ------------------------------------------------------------------------
\* Pose similarity and the Mat comparison operators.  A second operand is a
\* record [kind, val] of kind "Mat" or "None".

subs3(a, b) == <<RSub(a[1], b[1]), RSub(a[2], b[2]), RSub(a[3], b[3])>>

distance(a, b) == Bind(subs3(a, b), LAMBDA d : norm(d))

RealPos(H) == <<Real(At(H, 0, 3)), Real(At(H, 1, 3)), Real(At(H, 2, 3))>>

\* pose_angle_between(pose1, pose2) for a homogeneous pose1
pose_angle_between(pose1, pose2) ==
    Bind(invH(pose1), LAMBDA r : Bind(mul(r.val, pose2), LAMBDA H : pose_angle(H)))

\* the default tolerance 0.1 of pose_is_similar is 1/SimilarTolInv
SimilarTolInv == 10

\* pose_is_similar that compares the positions only
pose_is_similar_PositionOnly(a, b) ==
    Bind(invH(a), LAMBDA r :
        IF r.err # "none" THEN Raise(r.err)
        ELSE Bind(distance(RealPos(a), RealPos(b)), LAMBDA d :
                 Value(RLess(d, <<1, SimilarTolInv, 1>>))))

\* pose_is_similar(a, b) for 4x4 matrices: distance + angle * 180 / pi <
\* tolerance, taken as distance < tolerance - angle * 180 / pi (the angle in
\* degrees is a rational number, the distance may be a square root)
pose_is_similar(a, b) ==
    Bind(invH(a), LAMBDA r :
        IF r.err # "none" THEN Raise(r.err)
        ELSE Bind2(distance(RealPos(a), RealPos(b)), pose_angle_between(a, b), LAMBDA d, angle :
                 Bind(RMul(angle, Real(180)), LAMBDA t :
                 Bind(RDiv(t, Real(pi)), LAMBDA degrees :
                 Bind(RSub(<<1, SimilarTolInv, 1>>, degrees), LAMBDA rest :
                     Value(RLess(d, rest)))))))

\* Mat.__eq__
eq(self, other_) ==
    IF other_.kind = "None" THEN Value(FALSE) ELSE pose_is_similar(other_.val, self)

\* Mat.__ne__
ne(self, other_) ==
    Bind(eq(self, other_), LAMBDA r : IF r.err # "none" THEN r ELSE Value(~r.val))

\* ------------------------------------------------------------------------
\* RelTool and Offset on a Mat target

\* RelTool multiplying on the side of the reference frame
RelTool_Reference(target_pose, x, y, z, rx, ry, rz) ==
    IF ~mulOK(target_pose, transl(x, y, z)) THEN Raise("Exception")
    ELSE Value(mul(mul(mul(mul(transl(x, y, z), rotx((rx * pi) \div 180)),
                           roty((ry * pi) \div 180)), rotz((rz * pi) \div 180)),
                   target_pose))

RelTool(target_pose, x, y, z, rx, ry, rz) ==
    IF ~mulOK(target_pose, transl(x, y, z)) THEN Raise("Exception")
    ELSE Value(mul(mul(mul(mul(target_pose, transl(x, y, z)), rotx((rx * pi) \div 180)),
                  roty((ry * pi) \div 180)), rotz((rz * pi) \div 180)))

\* Offset testing only the size of the pose
Offset_SizeOnly(target_pose, x, y, z, rx, ry, rz) ==
    IF size(target_pose) # <<4, 4>> THEN Raise("Exception")
    ELSE Value(mul(mul(mul(mul(transl(x, y, z), rotx((rx * pi) \div 180)),
                           roty((ry * pi) \div 180)), rotz((rz * pi) \div 180)),
                   target_pose))

Offset(target_pose, x, y, z, rx, ry, rz) ==
    IF ~isHomogeneous(target_pose) THEN Raise("Exception")
    ELSE Value(mul(mul(mul(mul(transl(x, y, z), rotx((rx * pi) \div 180)),
                           roty((ry * pi) \div 180)), rotz((rz * pi) \div 180)),
                   target_pose))

\* ------------------------------------------------------------------------
\* Rigid poses

Dot3(u, v) == u[1] * v[1] + u[2] * v[2] + u[3] * v[3]

\* the rotation block R of H satisfies R * transpose(R) = I
Orthonormal(H) ==
    \A i \in 1..3, j \in 1..3 : Dot3(H[i], H[j]) = (IF i = j THEN 1 ELSE 0)

Det3(H) ==
    H[1][1] * (H[2][2] * H[3][3] - H[2][3] * H[3][2])
    - H[1][2] * (H[2][1] * H[3][3] - H[2][3] * H[3][1])
    + H[1][3] * (H[2][1] * H[3][2] - H[2][2] * H[3][1])

\* the Pose invariant of the data model
IsPose(H) == size(H) = <<4, 4>> /\ Orthonormal(H) /\ H[4] = <<0, 0, 0, 1>>

\* a pose whose rotation block is a rotation (not a reflection)
IsRigid(H) == IsPose(H) /\ Det3(H) = 1

\* ------------------------------------------------------------------------
\* Inputs

Positions == {<<a, 2 * a, 3 * a>> : a \in -MaxCoord..MaxCoord}

Angles == -1..MaxAngle

\* [x, y, z, rx, ry, rz] with the angles in radians
RadInputs == {<<t[1], t[2], t[3], a, b, c>> : t \in Positions, a \in Angles, b \in Angles, c \in Angles}

\* [x, y, z, r, p, w] with the angles in degrees
DegInputs == {<<v[1], v[2], v[3], 90 * v[4], 90 * v[5], 90 * v[6]>> : v \in RadInputs}

OffsetInputs == {v \in DegInputs : v[1] = 1 /\ \A k \in 4..6 : v[k] \in {0, 90}}

EditValues == {-1, 0, 2}

BasePoses == {TxyzRxyz_2_Pose(<<1, 2, 3, a, b, c>>) : a \in 0..1, b \in 0..1, c \in 0..1}

\* quaternions whose non-zero entries have one magnitude and number 1, 2 or 4
\* (the multiples of the unit quaternions of the axis-aligned rotations), and
\* the zero quaternion
QuatOnGrid(q) ==
    /\ \A j \in 1..4, k \in 1..4 : (q[j] # RZero /\ q[k] # RZero) => RAbs(q[j]) = RAbs(q[k])
    /\ Cardinality({k \in 1..4 : q[k] # RZero}) \in {0, 1, 2, 4}

QuatInputs ==
    {q \in {[k \in 1..4 |-> Real(z[k])] : z \in [1..4 -> -MaxQuat..MaxQuat]} : QuatOnGrid(q)}

\* UR targets [x,y,z,u,v,w]: a turn about one coordinate axis
URInputs ==
    {<<Real(t[1]), Real(t[2]), Real(t[3]),
       Real(IF k = 1 THEN a ELSE 0), Real(IF k = 2 THEN a ELSE 0), Real(IF k = 3 THEN a ELSE 0)>> :
        t \in Positions, k \in 1..3, a \in Angles}

\* Pose_Split(M, pose2, delta_mm): pose2 is M moved along one axis and, for
\* two steps, turned by a half turn; the moves are those whose sub-steps
\* stay on the grid
SplitMoves ==
    {mul(transl(10, 0, 0), eye4), mul(transl(3, 0, 0), eye4), mul(transl(0, 0, 0), rotx(1)),
     mul(transl(0, 2, 0), rotz(2)), mul(transl(0, 0, 2), rotx(2)), mul(transl(0, 0, 3), roty(1))}

SplitStepsOf(D, delta_mm) ==
    LET d == Abs(At(D, 0, 3)) + Abs(At(D, 1, 3)) + Abs(At(D, 2, 3))
    IN  IF d <= delta_mm THEN 0 ELSE Max(1, d \div delta_mm)

SplitInputs ==
    {c \in [D : SplitMoves, delta_mm : 1..4] :
        LET steps == SplitStepsOf(c.D, c.delta_mm)
            turned == GetBlock(c.D, Range(0, 3), Range(0, 3)) # eye(3)
        IN  \/ steps <= 1
            \/ /\ \A i \in 0..2 : At(c.D, i, 3) % steps = 0
               /\ turned => (steps = 2 /\ pose_angle(c.D) = Real(2))}

\* the axes handed to point_Xaxis_2_pose, point_Yaxis_2_pose and
\* point_Zaxis_2_pose: along a coordinate axis, of any length
AxisVectors ==
    {<<2, 0, 0>>, <<-1, 0, 0>>, <<0, 3, 0>>, <<0, -2, 0>>, <<0, 0, 1>>, <<0, 0, -3>>}

\* joint lists and robot types
JointLists == [1..6 -> {-1, 2}]

RobotTypes == {0, 2, 3, 4, 11}

\* the pose compared with M is M moved by one of these
EqMoves ==
    {eye4, transl(1, 0, 0), transl(0, 0, -2), rotx(1), rotz(2), mul(rotx(1), roty(1)),
     mul(transl(0, 1, 0), roty(-1))}

\* nested lists handed to Mat(rows): poses with one entry overwritten
LiteralRows == {SetItem(B, i, j, v) : B \in BasePoses, i \in 0..3, j \in 0..3, v \in EditValues}

\* lists of row lists of every shape, jagged ones included; the entry of row
\* i, column j (from 1) is 10*i + j, so that an entry shows its position
ListShapes == UNION {[1..m -> 0..MaxRowLen] : m \in 0..MaxListRows}

NestedLists == {[i \in 1..Len(s) |-> [j \in 1..s[i] |-> 10 * i + j]] : s \in ListShapes}

FlatLists == {[k \in 1..n |-> 70 + k] : n \in 0..MaxListRows}

\* second operands of the arithmetic and of the concatenations
Coded(r, c) == [i \in 1..r |-> [j \in 1..c |-> i + 2 * j]]

MatOperands == {[kind |-> "Mat", val |-> Coded(r, c)] : r \in 1..2, c \in 0..MaxRowLen}

NumberOperands == {[kind |-> "number", val |-> 3]}

RowsOperands == {[kind |-> "rows", val |-> Coded(r, c)] : r \in 1..2, c \in 1..MaxRowLen}

FlatOperands == {[kind |-> "flat", val |-> [k \in 1..n |-> 4 + k]] : n \in 1..2}

\* the lists multiplied with M: v[k] = k + 1
\* the dim arguments of size()
Dims == {-1, 0, 1, 2}

VectorOperands == {[kind |-> "flat", val |-> [k \in 1..n |-> k + 1]] : n \in 0..MaxDim}

\* an operand as the item assigned to a selection of M
ItemOf(b) == [kind |-> b.kind, val |-> b.val, alias |-> <<>>]

\* the ranges lo:hi of an axis of n entries
RangesOf(n) == {Slice(lo, hi, n) : lo \in 0..n, hi \in 0..n}

\* ------------------------------------------------------------------------
\* State: M is the matrix under test and made the call that built it, out the
\* result of the operation applied to M, back the pose built from out, other
\* the caller's second object (a list handed to a call, or a Mat obtained
\* from M) as the calls leave it: other.alias[r] is the row of M (from 1)
\* that row r of other is, 0 when the row is a list of its own.

NoOut == [by |-> "none", arg |-> <<>>, err |-> "none", val |-> <<>>]

NoBack == [by |-> "none", val |-> <<>>]

NoOther == [kind |-> "none", val |-> <<>>, alias |-> <<>>]

Init ==
    /\ pc = "idle"
    /\ M = MatZeros(4, 4)
    /\ made = [by |-> "Mat", arg |-> <<>>]
    /\ out = NoOut
    /\ back = NoBack
    /\ other = NoOther

Build(name, arg, m) ==
    /\ pc = "idle"
    /\ pc' = "built"
    /\ M' = m
    /\ made' = [by |-> name, arg |-> arg]
    /\ UNCHANGED <<out, back, other>>

MatOp(name, arg, result) ==
    /\ pc = "built"
    /\ pc' = "done"
    /\ out' = [by |-> name, arg |-> arg, err |-> result.err, val |-> result.val]
    /\ UNCHANGED <<M, made, back, other>>

Decompose(name, result) ==
    /\ pc = "built"
    /\ isHomogeneous(M)
    /\ pc' = "decomposed"
    /\ out' = [by |-> name, arg |-> <<>>, err |-> result.err, val |-> result.val]
    /\ UNCHANGED <<M, made, back, other>>

Rebuild(name, from, m) ==
    /\ pc = "decomposed"
    /\ out.by = from
    /\ out.err = "none"
    /\ pc' = "rebuilt"
    /\ back' = [by |-> name, val |-> m]
    /\ UNCHANGED <<M, made, out, other>>

\* constructors
Call_Mat == Build("Mat", <<>>, MatZeros(4, 4))

Call_MatSize == \E m \in 0..MaxDim, n \in 0..MaxDim : Build("Mat", <<m, n>>, MatZeros(m, n))

\* Mat(rows) on a list of row lists of the caller: short rows are padded in
\* place and the Mat keeps the caller's list as its rows
MatFromRows(rows) ==
    /\ pc = "idle"
    /\ pc' = "built"
    /\ M' = MatRows(rows)
    /\ made' = [by |-> "Mat", arg |-> rows]
    /\ other' = IF Len(rows) = 0 THEN [kind |-> "rows", val |-> rows, alias |-> <<>>]
                ELSE [kind |-> "rows", val |-> MatRows(rows),
                      alias |-> [r \in 1..Len(rows) |-> r]]
    /\ UNCHANGED <<out, back>>

Call_MatRows == \E rows \in LiteralRows : MatFromRows(rows)

Call_eye == \E n \in 0..MaxDim : Build("eye", <<n>>, eye(n))

Call_PosePP ==
    \E v \in DegInputs : Build("PosePP", v, PosePP(v[1], v[2], v[3], v[4], v[5], v[6]))

Call_Pose ==
    \E v \in DegInputs : Build("Pose", v, Pose(v[1], v[2], v[3], v[4], v[5], v[6]))

Call_xyzrpw_2_pose ==
    \/ \E v \in DegInputs : Build("xyzrpw_2_pose", v, xyzrpw_2_pose(v))
    \/ Rebuild("xyzrpw_2_pose", "pose_2_xyzrpw", xyzrpw_2_pose(out.val))

Call_TxyzRxyz_2_Pose ==
    \/ \E v \in RadInputs : Build("TxyzRxyz_2_Pose", v, TxyzRxyz_2_Pose(v))
    \/ Rebuild("TxyzRxyz_2_Pose", "Pose_2_TxyzRxyz", TxyzRxyz_2_Pose(out.val))

Call_Motoman_2_Pose ==
    \/ \E v \in DegInputs : Build("Motoman_2_Pose", v, Motoman_2_Pose(v))
    \/ Rebuild("Motoman_2_Pose", "Pose_2_Motoman", Motoman_2_Pose(out.val))

Call_Fanuc_2_Pose ==
    \/ \E v \in DegInputs : Build("Fanuc_2_Pose", v, Fanuc_2_Pose(v))
    \/ Rebuild("Fanuc_2_Pose", "Pose_2_Fanuc", Fanuc_2_Pose(out.val))

Call_Techman_2_Pose ==
    \/ \E v \in DegInputs : Build("Techman_2_Pose", v, Techman_2_Pose(v))
    \/ Rebuild("Techman_2_Pose", "Pose_2_Techman", Techman_2_Pose(out.val))

Call_KUKA_2_Pose ==
    \/ \E v \in DegInputs : Build("KUKA_2_Pose", v, KUKA_2_Pose(v))
    \/ Rebuild("KUKA_2_Pose", "Pose_2_KUKA", KUKA_2_Pose(out.val))

Call_Adept_2_Pose ==
    \/ \E v \in DegInputs : Build("Adept_2_Pose", v, Adept_2_Pose(v))
    \/ Rebuild("Adept_2_Pose", "Pose_2_Adept", Adept_2_Pose(out.val))

Call_Comau_2_Pose ==
    \/ \E v \in DegInputs : Build("Comau_2_Pose", v, Comau_2_Pose(v))
    \/ Rebuild("Comau_2_Pose", "Pose_2_Comau", Comau_2_Pose(out.val))

Call_Nachi_2_Pose ==
    \/ \E v \in DegInputs : Build("Nachi_2_Pose", v, Nachi_2_Pose(v))
    \/ Rebuild("Nachi_2_Pose", "Pose_2_Nachi", Nachi_2_Pose(out.val))

\* quaternion_2_pose(q) on a list q of the caller, or on the list returned by
\* pose_2_quaternion; other is that list after the call
Call_quaternion_2_pose ==
    \/ \E q \in QuatInputs :
           LET r == quaternion_2_pose(q)
           IN  /\ pc = "idle"
               /\ pc' = IF r.err = "none" THEN "built" ELSE "done"
               /\ M' = IF r.err = "none" THEN r.val ELSE M
               /\ made' = [by |-> "quaternion_2_pose", arg |-> q]
               /\ out' = IF r.err = "none" THEN out
                         ELSE [by |-> "quaternion_2_pose", arg |-> q, err |-> r.err, val |-> <<>>]
               /\ other' = [kind |-> "list", val |-> r.qin, alias |-> <<>>]
               /\ UNCHANGED back
    \/ /\ pc = "decomposed"
       /\ out.by = "pose_2_quaternion"
       /\ out.err = "none"
       /\ QuatOnGrid(out.val)
       /\ LET r == quaternion_2_pose(out.val)
          IN  /\ pc' = "rebuilt"
              /\ back' = [by |-> "quaternion_2_pose", val |-> r.val]
              /\ other' = [kind |-> "list", val |-> r.qin, alias |-> <<>>]
       /\ UNCHANGED <<M, made, out>>

Call_UR_2_Pose ==
    \/ \E v \in URInputs : Build("UR_2_Pose", v, UR_2_Pose(v).val)
    \/ Rebuild("UR_2_Pose", "Pose_2_UR", UR_2_Pose(out.val).val)

\* operations on the matrix
Call_isHomogeneous == MatOp("isHomogeneous", <<>>, Value(isHomogeneous(M)))

Call_invH == MatOp("invH", <<>>, invH(M))

Call_inv == MatOp("inv", <<>>, inv(M))

Call_Offset ==
    \E v \in OffsetInputs : MatOp("Offset", v, Offset(M, v[1], v[2], v[3], v[4], v[5], v[6]))

\* RelTool on a matrix M built by TxyzRxyz_2_Pose or eye
Call_RelTool ==
    /\ pc = "built"
    /\ made.by \in {"TxyzRxyz_2_Pose", "eye", "rotx"}
    /\ \E v \in OffsetInputs :
           MatOp("RelTool", v, RelTool(M, v[1], v[2], v[3], v[4], v[5], v[6]))

\* Pose_Split from a matrix M built by TxyzRxyz_2_Pose or eye to a pose near it
Call_Pose_Split ==
    /\ pc = "built"
    /\ made.by \in {"TxyzRxyz_2_Pose", "eye"}
    /\ \E c \in SplitInputs :
           LET pose2 == IF size(M) = <<4, 4>> THEN mul(M, c.D) ELSE c.D
           IN  MatOp("Pose_Split", <<pose2, c.delta_mm>>, Pose_Split(M, pose2, c.delta_mm))

\* M == B, B == M and M == None for a pose M built by TxyzRxyz_2_Pose or eye
Call_eq ==
    /\ pc = "built"
    /\ made.by \in {"TxyzRxyz_2_Pose", "eye", "rotx"}
    /\ isHomogeneous(M)
    /\ \/ \E B \in {mul(M, D) : D \in EqMoves} :
              \E r \in {eq(M, [kind |-> "Mat", val |-> B])} : MatOp("eq", <<B, "self">>, r)
       \/ \E B \in {mul(M, D) : D \in EqMoves} :
              \E r \in {eq(B, [kind |-> "Mat", val |-> M])} : MatOp("eq", <<B, "other">>, r)
       \/ MatOp("eq", <<>>, eq(M, [kind |-> "None", val |-> <<>>]))

\* M != B
Call_ne ==
    /\ pc = "built"
    /\ made.by \in {"TxyzRxyz_2_Pose", "eye"}
    /\ isHomogeneous(M)
    /\ \E B \in {mul(M, D) : D \in EqMoves} :
           \E r \in {ne(M, [kind |-> "Mat", val |-> B])} : MatOp("ne", <<B, "self">>, r)

\* decompositions of a pose
Call_pose_2_quaternion == Decompose("pose_2_quaternion", pose_2_quaternion(M))

Call_Pose_2_UR == Decompose("Pose_2_UR", Pose_2_UR(M))

Call_Pose_2_TxyzRxyz == Decompose("Pose_2_TxyzRxyz", Pose_2_TxyzRxyz(M))

Call_pose_2_xyzrpw == Decompose("pose_2_xyzrpw", pose_2_xyzrpw(M))

Call_Pose_2_Staubli == Decompose("Pose_2_Staubli", Pose_2_Staubli(M))

Call_Pose_2_Motoman == Decompose("Pose_2_Motoman", Pose_2_Motoman(M))

Call_Pose_2_Fanuc == Decompose("Pose_2_Fanuc", Pose_2_Fanuc(M))

Call_Pose_2_Techman == Decompose("Pose_2_Techman", Pose_2_Techman(M))

Call_Pose_2_KUKA == Decompose("Pose_2_KUKA", Pose_2_KUKA(M))

Call_Pose_2_Adept == Decompose("Pose_2_Adept", Pose_2_Adept(M))

Call_Pose_2_Comau == Decompose("Pose_2_Comau", Pose_2_Comau(M))

Call_Pose_2_Nachi == Decompose("Pose_2_Nachi", Pose_2_Nachi(M))

\* poses from a point and an axis, with the default hints
Call_point_Xaxis_2_pose ==
    \E point \in Positions, xaxis \in AxisVectors :
        Build("point_Xaxis_2_pose", <<point, xaxis>>, point_Xaxis_2_pose(point, xaxis))

Call_point_Yaxis_2_pose ==
    \E point \in Positions, yaxis \in AxisVectors :
        Build("point_Yaxis_2_pose", <<point, yaxis>>, point_Yaxis_2_pose(point, yaxis))

Call_point_Zaxis_2_pose ==
    \E point \in Positions, zaxis \in AxisVectors :
        Build("point_Zaxis_2_pose", <<point, zaxis>>, point_Zaxis_2_pose(point, zaxis))

\* joints_2_angles(j, type) on a list j of the caller, then angles_2_joints on
\* the list returned; both work on the caller's list
Call_joints_2_angles ==
    /\ pc = "idle"
    /\ \E j \in JointLists, type \in RobotTypes :
           /\ pc' = "angles"
           /\ out' = [by |-> "joints_2_angles", arg |-> <<j, type>>, err |-> "none",
                      val |-> joints_2_angles(j, type)]
           /\ other' = [kind |-> "list", val |-> joints_2_angles(j, type), alias |-> <<>>]
           /\ UNCHANGED <<M, made, back>>

Call_angles_2_joints ==
    /\ pc = "angles"
    /\ pc' = "joints"
    /\ back' = [by |-> "angles_2_joints", val |-> angles_2_joints(other.val, out.arg[2])]
    /\ other' = [other EXCEPT !.val = angles_2_joints(other.val, out.arg[2])]
    /\ UNCHANGED <<M, made, out>>

\* the objects go out of scope; the next test starts from a fresh Mat()
Discard ==
    /\ pc # "idle"
    /\ pc' = "idle"
    /\ M' = MatZeros(4, 4)
    /\ made' = [by |-> "Mat", arg |-> <<>>]
    /\ out' = NoOut
    /\ back' = NoBack
    /\ other' = NoOther

Next ==
    \/ Call_point_Xaxis_2_pose
    \/ Call_point_Yaxis_2_pose
    \/ Call_point_Zaxis_2_pose
    \/ Call_joints_2_angles
    \/ Call_angles_2_joints
    \/ Call_Mat
    \/ Call_MatSize
    \/ Call_MatRows
    \/ Call_eye
    \/ Call_PosePP
    \/ Call_Pose
    \/ Call_xyzrpw_2_pose
    \/ Call_TxyzRxyz_2_Pose
    \/ Call_Motoman_2_Pose
    \/ Call_Fanuc_2_Pose
    \/ Call_Techman_2_Pose
    \/ Call_KUKA_2_Pose
    \/ Call_Adept_2_Pose
    \/ Call_Comau_2_Pose
    \/ Call_Nachi_2_Pose
    \/ Call_quaternion_2_pose
    \/ Call_UR_2_Pose
    \/ Call_isHomogeneous
    \/ Call_invH
    \/ Call_inv
    \/ Call_Offset
    \/ Call_RelTool
    \/ Call_Pose_Split
    \/ Call_eq
    \/ Call_ne
    \/ Call_pose_2_quaternion
    \/ Call_Pose_2_UR
    \/ Call_Pose_2_TxyzRxyz
    \/ Call_pose_2_xyzrpw
    \/ Call_Pose_2_Staubli
    \/ Call_Pose_2_Motoman
    \/ Call_Pose_2_Fanuc
    \/ Call_Pose_2_Techman
    \/ Call_Pose_2_KUKA
    \/ Call_Pose_2_Adept
    \/ Call_Pose_2_Comau
    \/ Call_Pose_2_Nachi
    \/ Discard

Spec == Init /\ [][Next]_vars

\* ------------------------------------------------------------------------
\* Matrices as objects: M is built from a list or a size, a second Mat is
\* obtained from it, and elements of either are assigned

\* other after the rows of M became H: a shared row is the same list
Sync(o, H) ==
    [o EXCEPT !.val = [r \in 1..Len(o.val) |->
                          IF r \in DOMAIN o.alias /\ o.alias[r] > 0
                          THEN H[o.alias[r]] ELSE o.val[r]]]

NoAlias(H) == [r \in 1..Len(H) |-> 0]

\* the Mat that __setitem__ makes of its item
ItemMat(it) ==
    CASE it.kind = "number" -> MatRows(<< <<it.val>> >>)
      [] it.kind = "Mat" -> it.val
      [] OTHER -> MatOf(it)

Call_MatNested == \E rows \in NestedLists : MatFromRows(rows)

\* Mat(rows) on a flat list: the rows of the Mat are new lists
Call_MatFlat ==
    \E rows \in FlatLists :
        /\ pc = "idle"
        /\ pc' = "built"
        /\ M' = MatFlat(rows)
        /\ made' = [by |-> "Mat", arg |-> rows]
        /\ other' = [kind |-> "list", val |-> rows, alias |-> <<>>]
        /\ UNCHANGED <<out, back>>

\* a Mat B obtained from M; alias tells which rows of B are rows of M
Derive(name, arg, B, alias) ==
    /\ pc = "built"
    /\ pc' = "derived"
    /\ out' = [by |-> name, arg |-> arg, err |-> "none", val |-> B]
    /\ other' = [kind |-> "Mat", val |-> B, alias |-> alias]
    /\ UNCHANGED <<M, made, back>>

\* M[idx], M[lo:hi] and M[lo:hi, lo2:hi2]
Call_getitem ==
    \/ \E idx \in 0..(Len(M) - 1) :
           Derive("getitem", <<idx>>, GetRow(M, idx), NoAlias(GetRow(M, idx)))
    \/ \E lo \in 0..Len(M), hi \in 0..Len(M) :
           /\ lo <= hi
           /\ Derive("getitem", <<lo, hi>>, GetSlice(M, lo, hi),
                     IF lo = hi THEN <<0>> ELSE [r \in 1..(hi - lo) |-> lo + r])
    \/ \E rg1 \in RangesOf(size(M)[1]), rg2 \in RangesOf(size(M)[2]) :
           Derive("getitem", <<rg1, rg2>>, GetBlock(M, rg1, rg2), NoAlias(GetBlock(M, rg1, rg2)))

Call_tr == Derive("tr", <<>>, tr(M), NoAlias(tr(M)))

Call_copy == Derive("copy", <<>>, copy(M), NoAlias(copy(M)))

Call_MatOfMat ==
    Derive("Mat", <<>>, MatOf([kind |-> "Mat", val |-> M]), NoAlias(M))

\* a binary operation M op b: its result is a new Mat
BinOp(name, b, r) ==
    /\ pc = "built"
    /\ pc' = IF r.err = "none" THEN "derived" ELSE "done"
    /\ out' = [by |-> name, arg |-> b, err |-> r.err, val |-> r.val]
    /\ other' = IF r.err = "none" THEN [kind |-> "Mat", val |-> r.val, alias |-> NoAlias(r.val)]
                ELSE other
    /\ UNCHANGED <<M, made, back>>

Call_add ==
    \/ \E b \in NumberOperands : BinOp("add", b, add(M, b))
    \/ \E b \in MatOperands : BinOp("add", b, add(M, b))

Call_sub ==
    \/ \E b \in NumberOperands : BinOp("sub", b, sub(M, b))
    \/ \E b \in MatOperands : BinOp("sub", b, sub(M, b))

Call_mul ==
    \/ \E b \in NumberOperands : BinOp("mul", b, matmul(M, b))
    \/ \E b \in MatOperands : BinOp("mul", b, matmul(M, b))
    \/ \E b \in VectorOperands : MatOp("mul", b, mulVector(M, b.val))

\* M.size(dim), M.RowsCount(), M.ColsCount()
Call_size ==
    \/ MatOp("size", [kind |-> "None"], sizeDim(M, [kind |-> "None"]))
    \/ \E d \in Dims : MatOp("size", [kind |-> "int", val |-> d], sizeDim(M, [kind |-> "int", val |-> d]))

Call_RowsCount == MatOp("RowsCount", <<>>, Value(RowsCount(M)))

Call_ColsCount == MatOp("ColsCount", <<>>, Value(ColsCount(M)))

\* a method of M that returns the Mat r.val, whose row k is row r.alias[k] of
\* M (0: a list of its own), and leaves M with the rows r.self
Method(name, arg, r) ==
    /\ pc = "built"
    /\ pc' = "derived"
    /\ M' = r.self
    /\ out' = [by |-> name, arg |-> arg, err |-> "none", val |-> r.val]
    /\ other' = [kind |-> "Mat", val |-> r.val, alias |-> r.alias]
    /\ UNCHANGED <<made, back>>

\* the rows of self after the Mat B, whose row k is row alias[k] of self,
\* became B2
Through(self, alias, B2) ==
    [r \in 1..Len(self) |->
        IF \E k \in DOMAIN alias : alias[k] = r
        THEN B2[CHOOSE k \in DOMAIN alias : alias[k] = r]
        ELSE self[r]]

\* a setter writes into the rows of self and returns self
Setter(name, arg, H) ==
    Method(name, arg, [val |-> H, alias |-> [r \in 1..Len(H) |-> r], self |-> H])

\* Mat.rotationPose: Mat(self), then setPos on it
rotationPose(self) ==
    Bind2(MatOf([kind |-> "Mat", val |-> self]), NoAlias(self), LAMBDA mat_rotation, alias :
        Bind(setPos(mat_rotation, <<0, 0, 0>>), LAMBDA B2 :
            [val |-> B2, alias |-> alias, self |-> Through(self, alias, B2)]))

\* the vectors handed to setVX, setVY, setVZ
AxisInputs == {<<2, 0, 0>>, <<0, -1, 0>>, <<0, 0, 3>>}

Call_setPos ==
    /\ size(M) = <<4, 4>>
    /\ \E newpos \in Positions : Setter("setPos", newpos, setPos(M, newpos))

Call_setVX ==
    /\ size(M) = <<4, 4>>
    /\ \E v_xyz \in AxisInputs : Setter("setVX", v_xyz, setVX(M, v_xyz))

Call_setVY ==
    /\ size(M) = <<4, 4>>
    /\ \E v_xyz \in AxisInputs : Setter("setVY", v_xyz, setVY(M, v_xyz))

Call_setVZ ==
    /\ size(M) = <<4, 4>>
    /\ \E v_xyz \in AxisInputs : Setter("setVZ", v_xyz, setVZ(M, v_xyz))

Call_rotationPose ==
    /\ size(M) = <<4, 4>>
    /\ Method("rotationPose", <<>>, rotationPose(M))

Call_translationPose ==
    /\ size(M) = <<4, 4>>
    /\ Derive("translationPose", <<>>, translationPose(M), NoAlias(M))

\* M.Pos(), M.VX(), M.VY(), M.VZ(), M.Rot33()
Call_Pos == size(M) = <<4, 4>> /\ MatOp("Pos", <<>>, Value(Pos(M)))

Call_VX == size(M) = <<4, 4>> /\ MatOp("VX", <<>>, Value(VX(M)))

Call_VY == size(M) = <<4, 4>> /\ MatOp("VY", <<>>, Value(VY(M)))

Call_VZ == size(M) = <<4, 4>> /\ MatOp("VZ", <<>>, Value(VZ(M)))

Call_Rot33 == size(M) = <<4, 4>> /\ Derive("Rot33", <<>>, Rot33(M), NoAlias(Rot33(M)))

\* rotx(rx)
Call_rotx == \E rx \in Angles : Build("rotx", <<rx>>, rotx(rx))

Call_catV ==
    \/ \E b \in MatOperands : BinOp("catV", b, catV(M, b))
    \/ \E b \in RowsOperands : BinOp("catV", b, catV(M, b))
    \/ \E b \in FlatOperands : BinOp("catV", b, catV(M, b))

Call_catH ==
    \/ \E b \in MatOperands : BinOp("catH", b, catH(M, b))
    \/ \E b \in RowsOperands : BinOp("catH", b, catH(M, b))
    \/ \E b \in FlatOperands : BinOp("catH", b, catH(M, b))

\* M[rg1, rg2] = item
SetM(rg1, rg2, it) ==
    LET r == SetBlockShared(M, rg1, rg2, ItemMat(it),
                            IF it.kind = "Mat" THEN it.alias ELSE NoAlias(ItemMat(it)))
    IN  /\ pc' = "done"
        /\ M' = IF r.err = "none" THEN r.val ELSE M
        /\ other' = IF r.err = "none" THEN Sync(other, r.val) ELSE other
        /\ out' = [by |-> "setitem", arg |-> <<rg1, rg2, it>>, err |-> r.err, val |-> <<>>]
        /\ UNCHANGED <<made, back>>

\* M[rg1, rg2] = item for a number, list or Mat of the caller; once a Mat B
\* was obtained from M: M[i, j] = number, and M[lo:hi, :] = B
Call_setitem ==
    \/ /\ pc = "built"
       /\ \E rg1 \in RangesOf(size(M)[1]), rg2 \in RangesOf(size(M)[2]), b \in NumberOperands :
              SetM(rg1, rg2, ItemOf(b))
    \/ /\ pc = "built"
       /\ \E rg1 \in RangesOf(size(M)[1]), rg2 \in RangesOf(size(M)[2]), b \in MatOperands :
              SetM(rg1, rg2, [ItemOf(b) EXCEPT !.alias = NoAlias(b.val)])
    \/ /\ pc = "built"
       /\ \E rg1 \in RangesOf(size(M)[1]), rg2 \in RangesOf(size(M)[2]), b \in RowsOperands :
              SetM(rg1, rg2, ItemOf(b))
    \/ /\ pc = "built"
       /\ \E rg1 \in RangesOf(size(M)[1]), rg2 \in RangesOf(size(M)[2]), b \in FlatOperands :
              SetM(rg1, rg2, ItemOf(b))
    \/ /\ pc = "derived"
       /\ \E i \in 0..(size(M)[1] - 1), j \in 0..(size(M)[2] - 1) :
              SetM(Range(i, i + 1), Range(j, j + 1),
                   [kind |-> "number", val |-> 99, alias |-> <<>>])
    \/ /\ pc = "derived"
       /\ \E rg1 \in RangesOf(size(M)[1]) :
              SetM(rg1, Range(0, size(M)[2]), other)

\* B[i, j] = number on the Mat B obtained from M, and L[i][j] = number on the
\* list L that M was built from: a row shared with M is the same list
Call_setitem_other ==
    /\ \/ pc = "derived"
       \/ pc = "built" /\ other.kind = "rows"
    /\ \E i \in 1..Len(other.val) :
           \E j \in 1..Len(other.val[i]) :
               /\ pc' = "done"
               /\ other' = [other EXCEPT !.val[i][j] = 98]
               /\ M' = [r \in 1..Len(M) |->
                           IF other.alias[i] = r THEN [M[r] EXCEPT ![j] = 98] ELSE M[r]]
               /\ out' = [by |-> "setitem_other", arg |-> <<i - 1, j - 1, 98>>,
                          err |-> "none", val |-> <<>>]
               /\ UNCHANGED <<made, back>>

MatNext ==
    \/ Call_MatSize
    \/ Call_rotx
    \/ Call_MatNested
    \/ Call_size
    \/ Call_RowsCount
    \/ Call_ColsCount
    \/ Call_isHomogeneous
    \/ Call_invH
    \/ Call_inv
    \/ Call_Offset
    \/ Call_RelTool
    \/ Call_eq
    \/ Call_setPos
    \/ Call_setVX
    \/ Call_setVY
    \/ Call_setVZ
    \/ Call_rotationPose
    \/ Call_translationPose
    \/ Call_Pos
    \/ Call_VX
    \/ Call_VY
    \/ Call_VZ
    \/ Call_Rot33
    \/ Call_MatFlat
    \/ Call_getitem
    \/ Call_tr
    \/ Call_copy
    \/ Call_MatOfMat
    \/ Call_add
    \/ Call_sub
    \/ Call_mul
    \/ Call_catV
    \/ Call_catH
    \/ Call_setitem
    \/ Call_setitem_other
    \/ Discard

MatSpec == Init /\ [][MatNext]_vars

\* ------------------------------------------------------------------------
\* Vocabulary of the properties

\* 6-tuples equal in position and, angle by angle, up to full turns
SameUpToTurns(v, w, turn) ==
    /\ \A k \in 1..3 : v[k] = w[k]
    /\ \A k \in 4..6 : (v[k] - w[k]) % turn = 0

Swap46(v) == <<v[1], v[2], v[3], v[6], v[5], v[4]>>

\* ------------------------------------------------------------------------
\* C1: for every Pose P, P * invH(P) is the identity, invH(invH(P)) is P, and
\* invH(P) has rotation block transpose(R) and translation -transpose(R)*t.
C1_InvH ==
    (pc = "done" /\ out.by \in {"invH", "inv"} /\ IsPose(M)) =>
        /\ out.err = "none"
        /\ mul(M, out.val) = eye4
        /\ invH(out.val) = Value(M)
        /\ \A i \in 1..3, j \in 1..3 : out.val[i][j] = M[j][i]
        /\ \A i \in 1..3 :
               out.val[i][4] = -(M[1][i] * M[1][4] + M[2][i] * M[2][4] + M[3][i] * M[3][4])
        /\ out.val[4] = <<0, 0, 0, 1>>

C1_Witness ==
    /\ pc = "done" /\ out.by = "invH" /\ IsPose(M) /\ out.err = "none"
    /\ M[1][1] = 0 /\ M[1][4] # 0 /\ M # tr(M)

\* C2: invH, inv and Offset raise an error, return no result and leave the
\* matrix unchanged whenever isHomogeneous() is false for it, which includes
\* every matrix that is not 4x4.
C2_RaiseOnNonHomogeneous ==
    [][(/\ pc = "built"
        /\ pc' = "done"
        /\ out'.by \in {"invH", "inv", "Offset"}
        /\ (~isHomogeneous(M) \/ size(M) # <<4, 4>>))
       => (out'.err # "none" /\ out'.val = <<>> /\ M' = M)]_vars

C2_Witness ==
    /\ pc = "done" /\ out.by = "Offset" /\ out.err = "Exception"
    /\ size(M) = <<4, 4>> /\ ~Orthonormal(M)

\* C3: isHomogeneous() returns true exactly for the matrices that satisfy the
\* Pose invariant: 4x4, sum of |(R*Rt - I)[i,j]| <= 1e-4, bottom row [0,0,0,1].
OrthoError(H) ==
    SumSeq([k \in 1..9 |->
        Abs(Dot3(H[((k - 1) \div 3) + 1], H[((k - 1) % 3) + 1])
            - (IF (k - 1) \div 3 = (k - 1) % 3 THEN 1 ELSE 0))])

PoseInvariant(H) ==
    /\ size(H) = <<4, 4>>
    /\ OrthoError(H) * HomogeneousTolInv <= 1
    /\ H[4] = <<0, 0, 0, 1>>

C3_IsHomogeneousIffPose ==
    (pc = "done" /\ out.by = "isHomogeneous") => (out.val = PoseInvariant(M))

\* C4: for every homogeneous pose P, singular or not,
\* TxyzRxyz_2_Pose(Pose_2_TxyzRxyz(P)) = P; in the singular band the result is
\* rx = 0, ry = +pi/2 or -pi/2, rz = atan2(R[1,0], R[1,1]); nothing is raised.
C4_TxyzRxyzRoundTrip ==
    (pc \in {"decomposed", "rebuilt"} /\ out.by = "Pose_2_TxyzRxyz" /\ IsRigid(M)) =>
        /\ out.err = "none"
        /\ At(M, 0, 2) >= 1 =>
               out.val = <<M[1][4], M[2][4], M[3][4], 0, pi \div 2, atan2(At(M, 1, 0), At(M, 1, 1))>>
        /\ At(M, 0, 2) <= -1 =>
               out.val = <<M[1][4], M[2][4], M[3][4], 0, -pi \div 2, atan2(At(M, 1, 0), At(M, 1, 1))>>
        /\ pc = "rebuilt" => back.val = M

C4_Witness ==
    /\ pc = "rebuilt" /\ out.by = "Pose_2_TxyzRxyz" /\ IsRigid(M)
    /\ At(M, 0, 2) = -1 /\ At(M, 1, 0) # 0 /\ back.val = M

\* C5: for every homogeneous pose P, singular or not,
\* xyzrpw_2_pose(pose_2_xyzrpw(P)) = P; in the singular band r = 0 and
\* p = -90, w = atan2(-R[1,2], R[1,1]) when R[2,0] > 1-1e-10,
\* p = +90, w = atan2(R[1,2], R[1,1]) when R[2,0] < -1+1e-10.
C5_xyzrpwRoundTrip ==
    (pc \in {"decomposed", "rebuilt"} /\ out.by = "pose_2_xyzrpw" /\ IsRigid(M)) =>
        /\ out.err = "none"
        /\ At(M, 2, 0) >= 1 =>
               out.val = <<M[1][4], M[2][4], M[3][4], 0, -90,
                           90 * atan2(-At(M, 1, 2), At(M, 1, 1))>>
        /\ At(M, 2, 0) <= -1 =>
               out.val = <<M[1][4], M[2][4], M[3][4], 0, 90,
                           90 * atan2(At(M, 1, 2), At(M, 1, 1))>>
        /\ pc = "rebuilt" => back.val = M

C5_Witness ==
    /\ pc = "rebuilt" /\ out.by = "pose_2_xyzrpw" /\ IsRigid(M)
    /\ At(M, 2, 0) = 1 /\ At(M, 1, 2) # 0 /\ back.val = M

\* C6 as stated: for every 6-tuple v whose middle angle is not congruent to
\* +90 or -90 degrees, Pose_2_TxyzRxyz(TxyzRxyz_2_Pose(v)) returns v and
\* pose_2_xyzrpw(xyzrpw_2_pose(v)) returns v, angles compared modulo a turn.
C6_Original ==
    /\ (pc = "decomposed" /\ made.by = "TxyzRxyz_2_Pose" /\ out.by = "Pose_2_TxyzRxyz"
        /\ made.arg[5] % 4 \notin {1, 3})
       => (out.err = "none" /\ SameUpToTurns(out.val, made.arg, 4))
    /\ (pc = "decomposed" /\ made.by = "xyzrpw_2_pose" /\ out.by = "pose_2_xyzrpw"
        /\ made.arg[5] % 360 \notin {90, 270})
       => (out.err = "none" /\ SameUpToTurns(out.val, made.arg, 360))

\* C6 amended: the round trip returns v (angles modulo a turn) for every v
\* whose middle angle lies strictly between -90 and +90 degrees modulo a turn
\* (its cosine is positive).
C6_EulerTupleRoundTrip ==
    /\ (pc = "decomposed" /\ made.by = "TxyzRxyz_2_Pose" /\ out.by = "Pose_2_TxyzRxyz"
        /\ cos(made.arg[5]) > 0)
       => (out.err = "none" /\ SameUpToTurns(out.val, made.arg, 4))
    /\ (pc = "decomposed" /\ made.by = "xyzrpw_2_pose" /\ out.by = "pose_2_xyzrpw"
        /\ cos((made.arg[5] * pi) \div 180) > 0)
       => (out.err = "none" /\ SameUpToTurns(out.val, made.arg, 360))

C6_Witness ==
    /\ pc = "decomposed" /\ made.by = "xyzrpw_2_pose" /\ out.by = "pose_2_xyzrpw"
    /\ made.arg[5] = 0 /\ made.arg[4] = 180 /\ made.arg[6] = -90 /\ made.arg[1] # 0
    /\ out.val = made.arg

\* C7 as stated: PosePP(x,y,z,r,p,w) is T(x,y,z)*Rz(w)*Ry(p)*Rx(r), the same
\* matrix as xyzrpw_2_pose([x,y,z,r,p,w]).
C7_Original ==
    (pc = "built" /\ made.by = "PosePP") =>
        /\ M = xyzrpw_2_pose(made.arg)
        /\ M = mul(transl(made.arg[1], made.arg[2], made.arg[3]),
                   mul(rotz((made.arg[6] * pi) \div 180),
                       mul(roty((made.arg[5] * pi) \div 180),
                           rotx((made.arg[4] * pi) \div 180))))

\* C7 amended: PosePP(x,y,z,r,p,w) is T(x,y,z)*Rz(r)*Ry(p)*Rx(w), the same
\* matrix as xyzrpw_2_pose([x,y,z,w,p,r]) (its fourth argument turns about Z,
\* its sixth about X).
C7_PosePP ==
    (pc = "built" /\ made.by = "PosePP") =>
        /\ M = xyzrpw_2_pose(Swap46(made.arg))
        /\ M = mul(transl(made.arg[1], made.arg[2], made.arg[3]),
                   mul(rotz((made.arg[4] * pi) \div 180),
                       mul(roty((made.arg[5] * pi) \div 180),
                           rotx((made.arg[6] * pi) \div 180))))

C7_Witness ==
    /\ pc = "built" /\ made.by = "PosePP"
    /\ made.arg[4] = 90 /\ made.arg[5] = 0 /\ made.arg[6] = 0 /\ made.arg[1] # 0
    /\ M # xyzrpw_2_pose(made.arg)

\* C8 as stated: the output of every vendor decomposition equals the output
\* of Pose_2_TxyzRxyz or of pose_2_xyzrpw after one fixed per-vendor
\* permutation of the angles, sign flips and radian/degree conversion.
VendorDecompositions ==
    {"Pose_2_KUKA", "Pose_2_Staubli", "Pose_2_Motoman", "Pose_2_Fanuc",
     "Pose_2_Techman", "Pose_2_Adept", "Pose_2_Comau", "Pose_2_Nachi"}

Vendor(name, H) ==
    CASE name = "Pose_2_KUKA" -> Pose_2_KUKA(H)
      [] name = "Pose_2_Staubli" -> Pose_2_Staubli(H)
      [] name = "Pose_2_Motoman" -> Pose_2_Motoman(H)
      [] name = "Pose_2_Fanuc" -> Pose_2_Fanuc(H)
      [] name = "Pose_2_Techman" -> Pose_2_Techman(H)
      [] name = "Pose_2_Adept" -> Pose_2_Adept(H)
      [] name = "Pose_2_Comau" -> Pose_2_Comau(H)
      [] name = "Pose_2_Nachi" -> Pose_2_Nachi(H)

Generic(base, H) ==
    IF base = "Pose_2_TxyzRxyz" THEN Pose_2_TxyzRxyz(H) ELSE pose_2_xyzrpw(H)

Relabellings ==
    [base : {"Pose_2_TxyzRxyz", "pose_2_xyzrpw"},
     perm : {f \in [1..3 -> 1..3] : \A i \in 1..3, j \in 1..3 : f[i] = f[j] => i = j},
     sign : [1..3 -> {-1, 1}],
     unit : {"same", "to_deg", "to_rad"}]

Convert(unit, x) ==
    CASE unit = "same" -> x
      [] unit = "to_deg" -> (x * 180) \div pi
      [] unit = "to_rad" -> (x * pi) \div 180

Relabel(m, g) ==
    <<g[1], g[2], g[3],
      Convert(m.unit, m.sign[1] * g[3 + m.perm[1]]),
      Convert(m.unit, m.sign[2] * g[3 + m.perm[2]]),
      Convert(m.unit, m.sign[3] * g[3 + m.perm[3]])>>

SamplePoses == {TxyzRxyz_2_Pose(<<1, 2, 3, a, b, c>>) : a \in 0..3, b \in 0..3, c \in 0..3}

\* the relabellings that turn the generic output into the vendor's on every pose
FixedRelabellings ==
    [name \in VendorDecompositions |->
        {m \in Relabellings :
            \A P \in SamplePoses : Vendor(name, P).val = Relabel(m, Generic(m.base, P).val)}]

C8_Original ==
    (pc = "decomposed" /\ out.by \in VendorDecompositions /\ IsRigid(M)) =>
        \E m \in FixedRelabellings[out.by] : out.val = Relabel(m, Generic(m.base, M).val)

\* C8 amended: Pose_2_Staubli is Pose_2_TxyzRxyz in degrees; Pose_2_Motoman,
\* Pose_2_Fanuc and Pose_2_Techman are pose_2_xyzrpw; Pose_2_KUKA and
\* Pose_2_Nachi are pose_2_xyzrpw with the first and third angle exchanged;
\* Pose_2_Adept and Pose_2_Comau are no relabelling of either conversion.
C8_VendorRelabelling ==
    (pc = "decomposed" /\ out.by \in VendorDecompositions /\ IsRigid(M)) =>
        /\ out.err = "none"
        /\ out.by = "Pose_2_Staubli" =>
               LET g == Pose_2_TxyzRxyz(M).val
               IN  out.val = <<g[1], g[2], g[3], 90 * g[4], 90 * g[5], 90 * g[6]>>
        /\ out.by \in {"Pose_2_Motoman", "Pose_2_Fanuc", "Pose_2_Techman"} =>
               out.val = pose_2_xyzrpw(M).val
        /\ out.by \in {"Pose_2_KUKA", "Pose_2_Nachi"} =>
               out.val = Swap46(pose_2_xyzrpw(M).val)
        /\ out.by \in {"Pose_2_Adept", "Pose_2_Comau"} => FixedRelabellings[out.by] = {}

C8_Witness ==
    /\ pc = "decomposed" /\ out.by = "Pose_2_Staubli" /\ IsRigid(M)
    /\ At(M, 0, 2) = 0 /\ out.val[4] = -90 /\ out.val[6] = 180 /\ out.val[1] # 0

\* C9: for each vendor pair X in KUKA, Motoman, Fanuc, Techman, Adept, Comau,
\* Nachi and every homogeneous pose P, X_2_Pose(Pose_2_X(P)) = P.
C9_VendorRoundTrip ==
    (/\ pc = "rebuilt"
     /\ out.by \in {"Pose_2_KUKA", "Pose_2_Motoman", "Pose_2_Fanuc", "Pose_2_Techman",
                    "Pose_2_Adept", "Pose_2_Comau", "Pose_2_Nachi"}
     /\ IsRigid(M))
    => back.val = M

\* C10: Pose_2_KUKA(P) is [x,y,z,w,p,r] where [x,y,z,r,p,w] = pose_2_xyzrpw(P),
\* in both singular bands and in the general case; Pose_2_KUKA(eye(4)) is
\* [0,0,0,0,0,0] and a pure translation transl(x,y,z) yields [x,y,z,0,0,0].
C10_KUKA ==
    (pc = "decomposed" /\ out.by = "Pose_2_KUKA") =>
        /\ out.err = pose_2_xyzrpw(M).err
        /\ out.val = Swap46(pose_2_xyzrpw(M).val)
        /\ M = eye(4) => out.val = <<0, 0, 0, 0, 0, 0>>
        /\ M = transl(M[1][4], M[2][4], M[3][4]) =>
               out.val = <<M[1][4], M[2][4], M[3][4], 0, 0, 0>>

C10_Witness ==
    /\ pc = "decomposed" /\ out.by = "Pose_2_KUKA"
    /\ At(M, 2, 0) = -1 /\ At(M, 1, 2) = 1 /\ out.val = <<M[1][4], M[2][4], M[3][4], 90, 90, 0>>
    /\ M[1][4] # 0

\* ------------------------------------------------------------------------
\* Vocabulary of the quaternion and rotation-vector properties

Trace3(H) == H[1][1] + H[2][2] + H[3][3]

\* q1^2 + q2^2 + q3^2 + q4^2
QuatNormSq(q) ==
    RAdd(RAdd(RMul(q[1], q[1]), RMul(q[2], q[2])), RAdd(RMul(q[3], q[3]), RMul(q[4], q[4])))

\* C11: pose_2_quaternion(P) is a unit 4-vector for every homogeneous pose P
\* in all three branches: [1,0,0,0] for the identity; for every 180-degree
\* rotation the second branch is taken, the scalar part is 0 and nothing is
\* raised by the division; a 180-degree rotation about Z gives [0,0,0,+-1].
C11_UnitQuaternion ==
    (pc \in {"decomposed", "rebuilt"} /\ out.by = "pose_2_quaternion" /\ IsRigid(M)) =>
        /\ out.err = "none"
        /\ QuatNormSq(out.val) = Real(1)
        /\ Rot33(M) = eye(3) => out.val = <<Real(1), RZero, RZero, RZero>>
        /\ Trace3(M) = -1 => out.val[1] = RZero
        /\ Rot33(M) = Rot33(rotz(pi)) =>
               out.val \in {<<RZero, RZero, RZero, Real(1)>>, <<RZero, RZero, RZero, Real(-1)>>}

C11_Witness ==
    /\ pc = "decomposed" /\ out.by = "pose_2_quaternion" /\ IsRigid(M)
    /\ Trace3(M) = -1 /\ out.val[1] = RZero /\ out.val[3] = <<1, 2, 2>> /\ out.val[4] = <<1, 2, 2>>

\* C12: quaternion_2_pose(q) never changes the caller's list: after the call,
\* for every input q, unit or not, the elements of the list the caller passed
\* are the same as before the call.
C12_CallerListUnchanged ==
    /\ (made.by = "quaternion_2_pose" /\ other.kind = "list") => other.val = made.arg
    /\ (back.by = "quaternion_2_pose" /\ other.kind = "list") => other.val = out.val

\* C13: for every homogeneous pose P, quaternion_2_pose(pose_2_quaternion(P))
\* has the rotation block of P and position [0,0,0], whichever branch of
\* pose_2_quaternion is taken.
C13_QuaternionRoundTrip ==
    (pc = "rebuilt" /\ out.by = "pose_2_quaternion" /\ IsRigid(M)) =>
        /\ Rot33(back.val) = Rot33(M)
        /\ Pos(back.val) = <<0, 0, 0>>
        /\ back.val[4] = <<0, 0, 0, 1>>

C13_Witness ==
    /\ pc = "rebuilt" /\ out.by = "pose_2_quaternion" /\ IsRigid(M)
    /\ Trace3(M) = 0 /\ out.val[2] = RNeg(RHalf) /\ out.val[4] = RHalf
    /\ Pos(M) # <<0, 0, 0>> /\ Rot33(back.val) = Rot33(M)

\* C14: for every homogeneous pose P the last three components of
\* Pose_2_UR(P) have norm pose_angle(P), and UR_2_Pose(Pose_2_UR(P)) = P, in
\* all branches: the zero vector for the identity, the diagonal pivot for
\* 180-degree rotations, the normalized antisymmetric axis otherwise.
C14_RotationVector ==
    (pc \in {"decomposed", "rebuilt"} /\ out.by = "Pose_2_UR" /\ IsRigid(M)) =>
        /\ out.err = "none"
        /\ norm(<<out.val[4], out.val[5], out.val[6]>>) = pose_angle(M)
        /\ Rot33(M) = eye(3) => <<out.val[4], out.val[5], out.val[6]>> = <<RZero, RZero, RZero>>
        /\ pc = "rebuilt" => back.val = M

C14_Witness ==
    /\ pc = "rebuilt" /\ out.by = "Pose_2_UR" /\ IsRigid(M)
    /\ Trace3(M) = -1 /\ M[1][1] = 0 /\ out.val[4] # RZero /\ Pos(M) # <<0, 0, 0>>
    /\ back.val = M

\* C15: with d the translation distance of inv(pose1)*pose2, Pose_Split
\* returns [pose2] if d <= delta_mm; otherwise, with steps =
\* max(1, floor(d/delta_mm)), exactly steps-1 poses, the k-th being
\* pose1 * UR_2_Pose((k/steps) * Pose_2_UR(inv(pose1)*pose2)), so that neither
\* pose1 nor pose2 is in the list; Pose_Split(eye(4), transl(10,0,0), 1)
\* returns 9 poses, each 1 mm further along X.
SplitExpected(pose1, pose2, delta_mm) ==
    Bind(mul(invH(pose1).val, pose2), LAMBDA pose_delta :
        Bind2(norm(<<Real(Pos(pose_delta)[1]), Real(Pos(pose_delta)[2]),
                     Real(Pos(pose_delta)[3])>>),
              Pose_2_UR(pose_delta).val, LAMBDA d, ur :
            IF RLeq(d, Real(delta_mm)) THEN <<pose2>>
            ELSE Bind(Max(1, RFloor(RDiv(d, Real(delta_mm)))), LAMBDA steps :
                     [k \in 1..(steps - 1) |->
                         mul(pose1, UR_2_Pose([j \in 1..6 |->
                                 RMul(RDiv(Real(k), Real(steps)), ur[j])]).val)])))

IsSetItemStep == pc # "done" /\ pc' = "done" /\ out'.by = "setitem"

\* C16: an assignment M[rows, cols] = item succeeds only if the shape of the
\* item is (number of selected rows, number of selected columns); on a
\* mismatch it raises and M is unchanged; on success exactly the selected
\* cells change, and they equal the entries of the item, as it was handed to
\* the assignment, in order.
C16_SetItem ==
    [][IsSetItemStep =>
          LET rg1 == out'.arg[1]
              rg2 == out'.arg[2]
              item == ItemMat(out'.arg[3])
          IN  IF size(item) = <<Len(rg1), Len(rg2)>>
              THEN /\ out'.err = "none"
                   /\ Len(M') = Len(M)
                   /\ \A i \in 1..Len(M) :
                          /\ Len(M'[i]) = Len(M[i])
                          /\ \A j \in 1..Len(M[i]) :
                                 M'[i][j] = IF PosIn(rg1, i - 1) > 0 /\ PosIn(rg2, j - 1) > 0
                                            THEN item[PosIn(rg1, i - 1)][PosIn(rg2, j - 1)]
                                            ELSE M[i][j]
              ELSE out'.err # "none" /\ M' = M]_vars

\* the matrix of the entries F(x, y) in the shape <<m, n>>
Entrywise(sz, F(_, _)) == [x \in 1..sz[1] |-> [y \in 1..sz[2] |-> F(x, y)]]

\* C17: A + B and A - B raise unless A and B have the same shape and
\* otherwise return the element-wise result; A * B raises unless
\* cols(A) = rows(B) and otherwise returns the rows(A) x cols(B) matrix of the
\* row-by-column dot products; a scalar is applied to every element; the
\* result is always a new matrix.
C17_Arithmetic ==
    out.by \in {"add", "sub", "mul"} =>
        LET A == M
            b == out.arg
            B == b.val
        IN  /\ (b.kind = "number" /\ out.by = "add") =>
                   out.err = "none" /\ out.val = Entrywise(size(A), LAMBDA x, y : A[x][y] + B)
            /\ (b.kind = "number" /\ out.by = "sub") =>
                   out.err = "none" /\ out.val = Entrywise(size(A), LAMBDA x, y : A[x][y] - B)
            /\ (b.kind = "number" /\ out.by = "mul") =>
                   out.err = "none" /\ out.val = Entrywise(size(A), LAMBDA x, y : A[x][y] * B)
            /\ (b.kind = "Mat" /\ out.by \in {"add", "sub"} /\ size(A) # size(B)) =>
                   out.err # "none"
            /\ (b.kind = "Mat" /\ out.by = "add" /\ size(A) = size(B)) =>
                   out.err = "none" /\ out.val = Entrywise(size(A), LAMBDA x, y : A[x][y] + B[x][y])
            /\ (b.kind = "Mat" /\ out.by = "sub" /\ size(A) = size(B)) =>
                   out.err = "none" /\ out.val = Entrywise(size(A), LAMBDA x, y : A[x][y] - B[x][y])
            /\ (b.kind = "Mat" /\ out.by = "mul" /\ size(A)[2] # size(B)[1]) =>
                   out.err # "none"
            /\ (b.kind = "Mat" /\ out.by = "mul" /\ size(A)[2] = size(B)[1]) =>
                   /\ out.err = "none"
                   /\ out.val = Entrywise(<<size(A)[1], size(B)[2]>>, LAMBDA x, y :
                                     SumSeq([k \in 1..size(A)[2] |-> A[x][k] * B[k][y]]))
            /\ (out.err = "none" /\ pc = "derived") =>
                   \A r \in 1..Len(other.val) : other.alias[r] = 0

\* C18: catV(A, B) for a Mat or a list literal B with as many columns as A
\* returns the rows of A followed by the rows of B, and raises when the column
\* counts differ; catH(A, B) returns the rows of A each followed by the row of
\* B beside it, and raises when the row counts differ.
C18_Concatenation ==
    out.by \in {"catV", "catH"} =>
        LET A == M
            B == IF out.arg.kind = "Mat" THEN out.arg.val ELSE MatOf(out.arg)
        IN  /\ (out.by = "catV" /\ size(A)[2] # size(B)[2]) => out.err # "none"
            /\ (out.by = "catV" /\ size(A)[2] = size(B)[2]) =>
                   out.err = "none" /\ out.val = A \o B
            /\ (out.by = "catH" /\ size(A)[1] # size(B)[1]) => out.err # "none"
            /\ (out.by = "catH" /\ size(A)[1] = size(B)[1]) =>
                   out.err = "none" /\ out.val = [x \in 1..Len(A) |-> A[x] \o B[x]]

\* a step that assigns an element of the second object (B[i, j] = number, or
\* L[i][j] = number on the list that M was built from)
IsSetOtherStep == pc # "done" /\ pc' = "done" /\ out'.by = "setitem_other"

\* C19: when B was obtained from M by M[i], M[a:b], M[a:b, c:d], tr(),
\* copy(), Mat(M) or arithmetic, or M was built as Mat(L) from a nested list
\* L, assigning an element of one of them never changes an element of the
\* other.
C19_NoSharedStorage ==
    [][/\ (IsSetItemStep /\ out'.err = "none" /\ out'.arg[3].kind = "number") =>
              other'.val = other.val
       /\ IsSetOtherStep => M' = M]_vars

\* C20: Mat(L) on nested row lists of unequal lengths never fails and never
\* truncates: the matrix has the rows of L in order, every row has the
\* maximum row length of L, each entry of L keeps its row and column, and
\* every added entry is 0; a flat list of k >= 1 numbers gives the k x 1
\* column of its entries.
C20_JaggedRows ==
    /\ (pc = "built" /\ made.by = "Mat" /\ other.kind = "rows" /\ Len(made.arg) > 0) =>
           LET L == made.arg
               n == CHOOSE l \in 0..MaxRowLen :
                        /\ \A i \in 1..Len(L) : Len(L[i]) <= l
                        /\ \E i \in 1..Len(L) : Len(L[i]) = l
           IN  /\ Len(M) = Len(L)
               /\ \A i \in 1..Len(L) :
                      /\ Len(M[i]) = n
                      /\ \A j \in 1..n : M[i][j] = IF j <= Len(L[i]) THEN L[i][j] ELSE 0
    /\ (pc = "built" /\ made.by = "Mat" /\ other.kind = "list" /\ Len(made.arg) > 0) =>
           /\ Len(M) = Len(made.arg)
           /\ \A i \in 1..Len(M) : M[i] = <<made.arg[i]>>

\* a jagged list whose first row is the shortest was padded
C20_Witness ==
    /\ pc = "built" /\ made.by = "Mat" /\ other.kind = "rows"
    /\ made.arg = << <<11>>, <<21, 22>>, <<>> >>
    /\ M = << <<11, 0>>, <<21, 22>>, <<0, 0>> >>

\* C21: for every m >= 0 and n >= 0, Mat(m, n) has size() = (m, n) and all
\* entries 0, and tr() of an m x n matrix has size (n, m), m = 0 and n = 0
\* included.
C21_ZeroFilled ==
    /\ (pc = "built" /\ made.by = "Mat" /\ other.kind = "none" /\ Len(made.arg) = 2) =>
           /\ size(M) = <<made.arg[1], made.arg[2]>>
           /\ \A i \in 1..Len(M) : \A j \in 1..Len(M[i]) : M[i][j] = 0
    /\ (pc = "derived" /\ out.by = "tr") => size(out.val) = <<size(M)[2], size(M)[1]>>

\* distance between the positions in mm plus angle between the poses in
\* degrees, below 0.1 (the angle is a rational number of degrees)
SimilarPoses(A, B) ==
    Bind2(<<Real(A[1][4] - B[1][4]), Real(A[2][4] - B[2][4]), Real(A[3][4] - B[3][4])>>,
          pose_angle_between(A, B), LAMBDA v, angle :
        Bind2(norm(v), RMul(angle, Real(90)), LAMBDA d, degrees :
            Bind(RSub(<<1, 10, 1>>, degrees), LAMBDA rest : RLess(d, rest))))

MoveOf(v) ==
    mul(transl(v[1], v[2], v[3]),
        mul(rotx(v[4] \div 90), mul(roty(v[5] \div 90), rotz(v[6] \div 90))))

\* C23: with C = transl(x,y,z)*rotx(rx)*roty(ry)*rotz(rz), RelTool(P, ...)
\* returns P*C and Offset(P, ...) returns C*P for every homogeneous P; P is
\* unchanged; with zero rotations Offset adds (x,y,z) to the position of P
\* and keeps its rotation block.
C23_RelToolOffset ==
    [][(pc = "built" /\ pc' = "done" /\ out'.by \in {"RelTool", "Offset"} /\ IsPose(M)) =>
          LET v == out'.arg
              C == MoveOf(v)
          IN  /\ M' = M
              /\ out'.err = "none"
              /\ out'.by = "RelTool" => out'.val = mul(M, C)
              /\ out'.by = "Offset" => out'.val = mul(C, M)
              /\ (out'.by = "Offset" /\ v[4] = 0 /\ v[5] = 0 /\ v[6] = 0) =>
                     /\ Pos(out'.val) = <<Pos(M)[1] + v[1], Pos(M)[2] + v[2], Pos(M)[3] + v[3]>>
                     /\ Rot33(out'.val) = Rot33(M)]_vars

\* RelTool with a turn on a turned pose, where P*C differs from C*P
C23_Witness ==
    /\ pc = "done" /\ out.by = "RelTool" /\ IsRigid(M) /\ Rot33(M) # eye(3)
    /\ out.arg[4] = 90 /\ out.err = "none"
    /\ out.val = mul(M, MoveOf(out.arg)) /\ out.val # mul(MoveOf(out.arg), M)

\* C24: for an m x m matrix P and a list v, P * v is the list of the first
\* m-1 rows of P*[v;1] when len(v) = m-1, the list P*v when len(v) = m, and
\* an error for any other length; P is unchanged.
C24_MatTimesList ==
    [][(pc = "built" /\ pc' = "done" /\ out'.by = "mul" /\ out'.arg.kind = "flat"
            /\ size(M)[1] = size(M)[2]) =>
          LET P == M
              v == out'.arg.val
              m == size(M)[1]
          IN  /\ M' = M
              /\ Len(v) = m - 1 =>
                     /\ out'.err = "none"
                     /\ out'.val = [i \in 1..(m - 1) |->
                                       SumSeq([k \in 1..(m - 1) |-> P[i][k] * v[k]]) + P[i][m]]
              /\ Len(v) = m =>
                     /\ out'.err = "none"
                     /\ out'.val = [i \in 1..m |-> SumSeq([k \in 1..m |-> P[i][k] * v[k]])]
              /\ Len(v) \notin {m - 1, m} => out'.err # "none"]_vars


\* C25: for every m x n matrix, RowsCount() returns m and ColsCount() returns
\* n, agreeing with size(0) and size(1).
C25_Counts ==
    (pc = "done" /\ out.by \in {"RowsCount", "ColsCount"}) =>
        /\ out.err = "none"
        /\ out.by = "RowsCount" => out.val = Len(M) /\ out.val = sizeDim(M, [kind |-> "int", val |-> 0]).val
        /\ out.by = "ColsCount" => out.val = Len(M[1]) /\ out.val = sizeDim(M, [kind |-> "int", val |-> 1]).val


\* the sequence pose1, Pose_Split(pose1, pose2, delta_mm)[0], ..., pose2
SplitSequence == <<M>> \o out.val \o <<out.arg[1]>>

\* every two consecutive poses of the sequence are less than bound apart
\* (at most bound when closed is TRUE)
SplitStepsWithin(bound, closed) ==
    Bind(SplitSequence, LAMBDA sq :
        \A k \in 1..(Len(sq) - 1) :
            Bind(distance(RealPos(sq[k]), RealPos(sq[k + 1])), LAMBDA d :
                IF closed THEN RLeq(d, Real(bound)) ELSE RLess(d, Real(bound))))

ReadOnlyOps ==
    {"tr", "size", "invH", "inv", "isHomogeneous", "add", "sub", "mul", "catV", "catH", "eq",
     "Pos", "VX", "VY", "VZ", "Rot33", "copy", "rotationPose", "translationPose", "RelTool",
     "Offset"}

\* a call of M.name(...) on a built matrix
IsCallStep(name) == pc = "built" /\ pc' \in {"done", "derived"} /\ out'.by = name

\* the step changed column col (from 0) of rows 0..2 to v and nothing else,
\* and returned the receiver
SetsColumn(col, v) ==
    /\ size(M') = size(M)
    /\ \A i \in 0..3 : \A j \in 0..3 :
           At(M', i, j) = IF j = col /\ i <= 2 THEN v[i + 1] ELSE At(M, i, j)
    /\ other'.kind = "Mat" /\ other'.val = M' /\ other'.alias = <<1, 2, 3, 4>>

C28_MatrixError ==
    (/\ pc = "done"
     /\ out.by \in {"add", "sub", "mul", "catV", "catH", "setitem", "invH", "inv", "Offset", "size"}
     /\ out.err # "none") =>
        IsInstance(out.err, "MatrixError")


\* C29: for every 6-element joint list j and every type,
\* angles_2_joints(joints_2_angles(j, type), type) returns the values j had
\* before the two calls.
C29_JointsRoundTrip ==
    (pc = "joints" /\ back.by = "angles_2_joints") => back.val = out.arg[1]


\* the unit vector along an axis-parallel vector of integers
UnitOf(v) == <<Sign(v[1]), Sign(v[2]), Sign(v[3])>>

\* cross product of two vectors of integers
Cross3(a, b) ==
    <<a[2] * b[3] - a[3] * b[2], a[3] * b[1] - a[1] * b[3], a[1] * b[2] - a[2] * b[1]>>

\* a vector parallel or anti-parallel to the Z axis, as the first hints are
AlongZ(v) == v[1] = 0 /\ v[2] = 0

\* C30: with the default hints point_Xaxis_2_pose, point_Yaxis_2_pose and
\* point_Zaxis_2_pose return a pose that satisfies isHomogeneous(), has
\* position equal to the point, has the named basis column equal to the
\* normalized axis and is right-handed (VX x VY = VZ); the second hint is
\* used when the first is parallel or anti-parallel to the axis, and the
\* cross product that is normalized is not the zero vector.
C30_PointAxisPose ==
    (pc = "built"
     /\ made.by \in {"point_Xaxis_2_pose", "point_Yaxis_2_pose", "point_Zaxis_2_pose"}) =>
        LET point == made.arg[1]
            axis == made.arg[2]
        IN  /\ isHomogeneous(M)
            /\ IsPose(M)
            /\ Pos(M) = point
            /\ made.by = "point_Xaxis_2_pose" =>
                   /\ VX(M) = UnitOf(axis)
                   /\ XaxisCross(Reals3(axis)) # Reals3(<<0, 0, 0>>)
                   /\ VY(M) = UnitOf(Cross3(IF AlongZ(axis) THEN <<0, -1, 0>> ELSE <<0, 0, -1>>,
                                             axis))
            /\ made.by = "point_Yaxis_2_pose" =>
                   /\ VY(M) = UnitOf(axis)
                   /\ YaxisCross(Reals3(axis)) # Reals3(<<0, 0, 0>>)
                   /\ VX(M) = UnitOf(Cross3(axis,
                                             IF AlongZ(axis) THEN <<-1, 0, 0>> ELSE <<0, 0, -1>>))
            /\ made.by = "point_Zaxis_2_pose" =>
                   /\ VZ(M) = UnitOf(axis)
                   /\ ZaxisCross(Reals3(axis)) # Reals3(<<0, 0, 0>>)
                   /\ VX(M) = UnitOf(Cross3(IF AlongZ(axis) THEN <<0, 1, 1>> ELSE <<0, 0, 1>>,
                                             axis))
            /\ Cross3(VX(M), VY(M)) = VZ(M)

C30_Witness ==
    /\ pc = "built" /\ made.by = "point_Zaxis_2_pose"
    /\ made.arg = <<<<1, 2, 3>>, <<0, 0, -3>>>>
    /\ VZ(M) = <<0, 0, -1>> /\ Pos(M) = <<1, 2, 3>> /\ Det3(M) = 1

====
